---- MODULE Spec2Model ----
(***************************************************************************)
(* Model of the rxdeb step debugger for Radiant scripts: the interpreter   *)
(* RxdVMAdapter (src/rxd/rxd_vm_adapter.cpp), and the verifier             *)
(* rxd::core::VerifyScript / VerifyTransaction                             *)
(* (src/rxd/rxd_core_bridge.cpp).                                          *)
(*                                                                         *)
(* A script is a sequence of bytes (0..255), a stack element (valtype) is  *)
(* a sequence of bytes, a stack is a sequence of elements whose last       *)
(* element is the top.  Program counters are zero-based byte offsets.      *)
(***************************************************************************)
EXTENDS Integers, Sequences, FiniteSets, TLC

(***************************************************************************)
(* Opcodes, rxd_script.h (enum opcodetype).                                *)
(***************************************************************************)
OP_0 == 0
OP_PUSHDATA1 == 76
OP_PUSHDATA2 == 77
OP_PUSHDATA4 == 78
OP_1NEGATE == 79
OP_1 == 81
OP_16 == 96
OP_NOP == 97
OP_IF == 99
OP_NOTIF == 100
OP_VERIF == 101
OP_VERNOTIF == 102
OP_ELSE == 103
OP_ENDIF == 104
OP_VERIFY == 105
OP_RETURN == 106
OP_TOALTSTACK == 107
OP_FROMALTSTACK == 108
OP_2DROP == 109
OP_2DUP == 110
OP_3DUP == 111
OP_IFDUP == 115
OP_DEPTH == 116
OP_DROP == 117
OP_DUP == 118
OP_NIP == 119
OP_OVER == 120
OP_PICK == 121
OP_ROLL == 122
OP_ROT == 123
OP_SWAP == 124
OP_TUCK == 125
OP_CAT == 126
OP_SPLIT == 127
OP_SIZE == 130
OP_AND == 132
OP_OR == 133
OP_XOR == 134
OP_EQUAL == 135
OP_EQUALVERIFY == 136
OP_1ADD == 139
OP_1SUB == 140
OP_NEGATE == 143
OP_ABS == 144
OP_NOT == 145
OP_0NOTEQUAL == 146
OP_ADD == 147
OP_SUB == 148
OP_MUL == 149
OP_2MUL == 141
OP_2DIV == 142
OP_DIV == 150
OP_MOD == 151
OP_BOOLAND == 154
OP_BOOLOR == 155
OP_NUMEQUAL == 156
OP_NUMEQUALVERIFY == 157
OP_NUMNOTEQUAL == 158
OP_LESSTHAN == 159
OP_GREATERTHAN == 160
OP_LESSTHANOREQUAL == 161
OP_GREATERTHANOREQUAL == 162
OP_MIN == 163
OP_MAX == 164
OP_WITHIN == 165
OP_SHA256 == 168
OP_HASH160 == 169
OP_HASH256 == 170
OP_CHECKSIG == 172
OP_CHECKSIGVERIFY == 173
OP_NOP1 == 176
OP_NOP4 == 179
OP_NOP10 == 185
OP_STATESEPARATOR == 189
OP_INPUTINDEX == 192
OP_ACTIVEBYTECODE == 193
OP_TXVERSION == 194
OP_TXINPUTCOUNT == 195
OP_TXOUTPUTCOUNT == 196
OP_TXLOCKTIME == 197
OP_UTXOVALUE == 198
OP_UTXOBYTECODE == 199
OP_OUTPOINTTXHASH == 200
OP_OUTPOINTINDEX == 201
OP_INPUTBYTECODE == 202
OP_INPUTSEQUENCENUMBER == 203
OP_OUTPUTVALUE == 204
OP_OUTPUTBYTECODE == 205
OP_PUSHINPUTREF == 208
OP_REQUIREINPUTREF == 209
OP_DISALLOWPUSHINPUTREF == 210
OP_DISALLOWPUSHINPUTREFSIBLING == 211
OP_PUSHINPUTREFSINGLETON == 216
\* the V2 hash opcodes, which opcodetype does not list
OP_BLAKE3 == 238
OP_K12 == 239

(***************************************************************************)
(* Limits, rxd_params.h (namespace Limits).                                *)
(***************************************************************************)
MAX_SCRIPT_ELEMENT_SIZE == 32000000
MAX_STACK_SIZE == 32000000
REF_SIZE == 36

(***************************************************************************)
(* rxd::ScriptErrorString: the message of every error kind, as the         *)
(* sequence of its characters (VerifyScript searches these messages).      *)
(***************************************************************************)
ScriptErrorString(e) ==
  CASE
       e = "OK" -> <<"N","o"," ","e","r","r","o","r">>
    [] e = "UNKNOWN" -> <<"U","n","k","n","o","w","n"," ","e","r","r","o","r">>
    [] e = "EVAL_FALSE" -> <<"S","c","r","i","p","t"," ","e","v","a","l","u","a","t","e","d"," ","w","i","t","h","o","u","t"," ","e","r","r","o","r"," ","b","u","t"," ","f","i","n","i","s","h","e","d"," ","w","i","t","h"," ","a"," ","f","a","l","s","e","/","e","m","p","t","y"," ","t","o","p"," ","s","t","a","c","k"," ","e","l","e","m","e","n","t">>
    [] e = "OP_RETURN" -> <<"O","P","_","R","E","T","U","R","N"," ","w","a","s"," ","e","n","c","o","u","n","t","e","r","e","d">>
    [] e = "SCRIPT_SIZE" -> <<"S","c","r","i","p","t"," ","i","s"," ","t","o","o"," ","b","i","g">>
    [] e = "PUSH_SIZE" -> <<"P","u","s","h"," ","v","a","l","u","e"," ","s","i","z","e"," ","l","i","m","i","t"," ","e","x","c","e","e","d","e","d">>
    [] e = "OP_COUNT" -> <<"O","p","e","r","a","t","i","o","n"," ","l","i","m","i","t"," ","e","x","c","e","e","d","e","d">>
    [] e = "STACK_SIZE" -> <<"S","t","a","c","k"," ","s","i","z","e"," ","l","i","m","i","t"," ","e","x","c","e","e","d","e","d">>
    [] e = "SIG_COUNT" -> <<"S","i","g","n","a","t","u","r","e"," ","c","o","u","n","t"," ","n","e","g","a","t","i","v","e"," ","o","r"," ","g","r","e","a","t","e","r"," ","t","h","a","n"," ","p","u","b","k","e","y"," ","c","o","u","n","t">>
    [] e = "PUBKEY_COUNT" -> <<"P","u","b","k","e","y"," ","c","o","u","n","t"," ","n","e","g","a","t","i","v","e"," ","o","r"," ","l","i","m","i","t"," ","e","x","c","e","e","d","e","d">>
    [] e = "VERIFY" -> <<"S","c","r","i","p","t"," ","f","a","i","l","e","d"," ","a","n"," ","O","P","_","V","E","R","I","F","Y"," ","o","p","e","r","a","t","i","o","n">>
    [] e = "EQUALVERIFY" -> <<"S","c","r","i","p","t"," ","f","a","i","l","e","d"," ","a","n"," ","O","P","_","E","Q","U","A","L","V","E","R","I","F","Y"," ","o","p","e","r","a","t","i","o","n">>
    [] e = "CHECKMULTISIGVERIFY" -> <<"S","c","r","i","p","t"," ","f","a","i","l","e","d"," ","a","n"," ","O","P","_","C","H","E","C","K","M","U","L","T","I","S","I","G","V","E","R","I","F","Y"," ","o","p","e","r","a","t","i","o","n">>
    [] e = "CHECKSIGVERIFY" -> <<"S","c","r","i","p","t"," ","f","a","i","l","e","d"," ","a","n"," ","O","P","_","C","H","E","C","K","S","I","G","V","E","R","I","F","Y"," ","o","p","e","r","a","t","i","o","n">>
    [] e = "NUMEQUALVERIFY" -> <<"S","c","r","i","p","t"," ","f","a","i","l","e","d"," ","a","n"," ","O","P","_","N","U","M","E","Q","U","A","L","V","E","R","I","F","Y"," ","o","p","e","r","a","t","i","o","n">>
    [] e = "BAD_OPCODE" -> <<"O","p","c","o","d","e"," ","m","i","s","s","i","n","g"," ","o","r"," ","n","o","t"," ","u","n","d","e","r","s","t","o","o","d">>
    [] e = "DISABLED_OPCODE" -> <<"A","t","t","e","m","p","t","e","d"," ","t","o"," ","u","s","e"," ","a"," ","d","i","s","a","b","l","e","d"," ","o","p","c","o","d","e">>
    [] e = "INVALID_STACK_OPERATION" -> <<"O","p","e","r","a","t","i","o","n"," ","n","o","t"," ","v","a","l","i","d"," ","w","i","t","h"," ","t","h","e"," ","c","u","r","r","e","n","t"," ","s","t","a","c","k"," ","s","i","z","e">>
    [] e = "INVALID_ALTSTACK_OPERATION" -> <<"O","p","e","r","a","t","i","o","n"," ","n","o","t"," ","v","a","l","i","d"," ","w","i","t","h"," ","t","h","e"," ","c","u","r","r","e","n","t"," ","a","l","t","s","t","a","c","k"," ","s","i","z","e">>
    [] e = "UNBALANCED_CONDITIONAL" -> <<"I","n","v","a","l","i","d"," ","O","P","_","I","F"," ","c","o","n","s","t","r","u","c","t","i","o","n">>
    [] e = "SIG_HASHTYPE" -> <<"S","i","g","n","a","t","u","r","e"," ","h","a","s","h"," ","t","y","p","e"," ","m","i","s","s","i","n","g"," ","o","r"," ","n","o","t"," ","u","n","d","e","r","s","t","o","o","d">>
    [] e = "SIG_DER" -> <<"N","o","n","-","c","a","n","o","n","i","c","a","l"," ","D","E","R"," ","s","i","g","n","a","t","u","r","e">>
    [] e = "MINIMALDATA" -> <<"D","a","t","a"," ","p","u","s","h"," ","l","a","r","g","e","r"," ","t","h","a","n"," ","n","e","c","e","s","s","a","r","y">>
    [] e = "SIG_PUSHONLY" -> <<"O","n","l","y"," ","p","u","s","h"," ","o","p","e","r","a","t","o","r","s"," ","a","l","l","o","w","e","d"," ","i","n"," ","s","i","g","n","a","t","u","r","e","s">>
    [] e = "SIG_HIGH_S" -> <<"N","o","n","-","c","a","n","o","n","i","c","a","l"," ","s","i","g","n","a","t","u","r","e",":"," ","S"," ","v","a","l","u","e"," ","i","s"," ","u","n","n","e","c","e","s","s","a","r","i","l","y"," ","h","i","g","h">>
    [] e = "SIG_NULLDUMMY" -> <<"D","u","m","m","y"," ","C","H","E","C","K","M","U","L","T","I","S","I","G"," ","a","r","g","u","m","e","n","t"," ","m","u","s","t"," ","b","e"," ","z","e","r","o">>
    [] e = "PUBKEYTYPE" -> <<"P","u","b","l","i","c"," ","k","e","y"," ","i","s"," ","n","e","i","t","h","e","r"," ","c","o","m","p","r","e","s","s","e","d"," ","o","r"," ","u","n","c","o","m","p","r","e","s","s","e","d">>
    [] e = "CLEANSTACK" -> <<"S","t","a","c","k"," ","s","i","z","e"," ","m","u","s","t"," ","b","e"," ","e","x","a","c","t","l","y"," ","o","n","e"," ","a","f","t","e","r"," ","e","x","e","c","u","t","i","o","n">>
    [] e = "MINIMALIF" -> <<"O","P","_","I","F","/","N","O","T","I","F"," ","a","r","g","u","m","e","n","t"," ","m","u","s","t"," ","b","e"," ","m","i","n","i","m","a","l">>
    [] e = "SIG_NULLFAIL" -> <<"S","i","g","n","a","t","u","r","e"," ","m","u","s","t"," ","b","e"," ","z","e","r","o"," ","f","o","r"," ","f","a","i","l","e","d"," ","C","H","E","C","K","(","M","U","L","T","I",")","S","I","G"," ","o","p","e","r","a","t","i","o","n">>
    [] e = "NEGATIVE_LOCKTIME" -> <<"N","e","g","a","t","i","v","e"," ","l","o","c","k","t","i","m","e">>
    [] e = "UNSATISFIED_LOCKTIME" -> <<"L","o","c","k","t","i","m","e"," ","r","e","q","u","i","r","e","m","e","n","t"," ","n","o","t"," ","s","a","t","i","s","f","i","e","d">>
    [] e = "SIG_BADLENGTH" -> <<"S","i","g","n","a","t","u","r","e"," ","i","s"," ","t","h","e"," ","w","r","o","n","g"," ","l","e","n","g","t","h">>
    [] e = "INVALID_REFERENCE" -> <<"I","n","v","a","l","i","d"," ","r","e","f","e","r","e","n","c","e"," ","f","o","r","m","a","t">>
    [] e = "REFERENCE_NOT_FOUND" -> <<"R","e","q","u","i","r","e","d"," ","r","e","f","e","r","e","n","c","e"," ","n","o","t"," ","f","o","u","n","d">>
    [] e = "SINGLETON_MISMATCH" -> <<"S","i","n","g","l","e","t","o","n"," ","r","e","f","e","r","e","n","c","e"," ","m","i","s","m","a","t","c","h">>
    [] e = "INVALID_STATE_SEPARATOR" -> <<"I","n","v","a","l","i","d"," ","s","t","a","t","e"," ","s","e","p","a","r","a","t","o","r"," ","p","o","s","i","t","i","o","n">>
    [] e = "INTROSPECTION_CONTEXT_UNAVAILABLE" -> <<"I","n","t","r","o","s","p","e","c","t","i","o","n"," ","c","o","n","t","e","x","t"," ","n","o","t"," ","a","v","a","i","l","a","b","l","e">>
    [] OTHER -> <<"U","n","k","n","o","w","n"," ","e","r","r","o","r">>

(***************************************************************************)
(* std::vector idioms used on the stacks.                                  *)
(***************************************************************************)
Top(s) == s[Len(s)]
Pop(s) == SubSeq(s, 1, Len(s) - 1)
PopN(s, n) == SubSeq(s, 1, Len(s) - n)
\* stack[stack.size() - 1 - k]: the element k places below the top
At(s, k) == s[Len(s) - k]
\* vector::erase of the element at one-based position i
EraseAt(s, i) == SubSeq(s, 1, i - 1) \o SubSeq(s, i + 1, Len(s))

SetMin(S) == CHOOSE x \in S : \A y \in S : x <= y

(***************************************************************************)
(* CastToBool: the first non-zero byte decides; it is "negative zero"      *)
(* only when it is a 0x80 in the last position.                            *)
(***************************************************************************)
\* CastToBool taking a 0x80 in any position for a negative zero
CastToBool_AnySign(v) ==
  LET nz == {i \in 1..Len(v) : v[i] # 0}
  IN IF nz = {} THEN FALSE
     ELSE LET i == SetMin(nz) IN ~(v[i] = 128)

CastToBool(v) ==
  LET nz == {i \in 1..Len(v) : v[i] # 0}
  IN IF nz = {} THEN FALSE
     ELSE LET i == SetMin(nz) IN ~(i = Len(v) /\ v[i] = 128)

(***************************************************************************)
(* Script number codec.  ScriptNumDeserialize ORs the bytes, little-endian,*)
(* into an int64, and when the top bit of the last byte is set clears it   *)
(* and negates.  ScriptNumSerialize emits the magnitude little-endian and  *)
(* puts the sign in the top bit of the last byte, adding a byte when that  *)
(* bit is taken.                                                           *)
(***************************************************************************)
RECURSIVE LittleEndian(_)
LittleEndian(v) ==
  IF v = <<>> THEN 0 ELSE v[1] + 256 * LittleEndian(Tail(v))

\* the sign bit of the last byte and the bytes with that bit cleared
SignAndMagnitude(v) ==
  IF v = <<>> THEN [neg |-> FALSE, mag |-> <<>>]
  ELSE IF Top(v) >= 128
       THEN [neg |-> TRUE, mag |-> Append(Pop(v), Top(v) - 128)]
       ELSE [neg |-> FALSE, mag |-> v]

ScriptNumDeserialize(v) ==
  IF SignAndMagnitude(v).neg THEN -LittleEndian(SignAndMagnitude(v).mag)
  ELSE LittleEndian(SignAndMagnitude(v).mag)

RECURSIVE MagnitudeBytes(_)
MagnitudeBytes(a) ==
  IF a = 0 THEN <<>> ELSE <<a % 256>> \o MagnitudeBytes(a \div 256)

\* PutSign always setting the sign in the last magnitude byte
PutSign_NoExtraByte(neg, result) ==
  IF neg /\ Top(result) < 128 THEN Append(Pop(result), Top(result) + 128)
  ELSE result

\* the sign put into the magnitude bytes: a byte is added when the top bit
\* of the last one is taken
PutSign(neg, result) ==
  IF Top(result) >= 128
  THEN Append(result, IF neg THEN 128 ELSE 0)
  ELSE IF neg THEN Append(Pop(result), Top(result) + 128)
       ELSE result

ScriptNumSerialize(n) ==
  IF n = 0 THEN <<>>
  ELSE PutSign(n < 0, MagnitudeBytes(IF n < 0 THEN -n ELSE n))

(***************************************************************************)
(* The codec on the whole int64 range.  An int64 is held as its sign and   *)
(* the little-endian bytes of its magnitude without leading zero bytes,    *)
(* which is what the loops of the two functions read and write a byte at a *)
(* time; zero is the empty magnitude.                                      *)
(***************************************************************************)
INT64_BYTES == 8

Zero64 == [neg |-> FALSE, mag |-> <<>>]

RECURSIVE StripZeros(_)
StripZeros(mag) ==
  IF mag = <<>> THEN <<>>
  ELSE IF Top(mag) = 0 THEN StripZeros(Pop(mag)) ELSE mag

\* the int64 with the given sign and magnitude bytes; -0 is 0
Int64(neg, mag) ==
  [neg |-> neg /\ StripZeros(mag) # <<>>, mag |-> StripZeros(mag)]

\* the values of -(2^63-1) .. 2^63-1
IsInt64(x) ==
  /\ Len(x.mag) <= INT64_BYTES
  /\ x.mag # <<>> => Top(x.mag) # 0
  /\ Len(x.mag) = INT64_BYTES => Top(x.mag) < 128
  /\ x.mag = <<>> => ~x.neg

ScriptNumSerialize64(x) ==
  IF x.mag = <<>> THEN <<>> ELSE PutSign(x.neg, x.mag)

\* for at most eight bytes every shift stays inside the int64
ScriptNumDeserialize64(v) ==
  Int64(SignAndMagnitude(v).neg, SignAndMagnitude(v).mag)

\* C++ integer division and remainder truncate toward zero
Abs(n) == IF n < 0 THEN -n ELSE n
TruncDiv(a, b) ==
  IF (a < 0) = (b < 0) THEN Abs(a) \div Abs(b) ELSE -(Abs(a) \div Abs(b))
TruncMod(a, b) == a - b * TruncDiv(a, b)

\* bitwise operators on bytes
Bit(x, k) == (x \div (2 ^ k)) % 2
BitAnd8(a, b) ==
  LET f[k \in 0..8] == IF k = 8 THEN 0
                       ELSE (Bit(a, k) * Bit(b, k)) * (2 ^ k) + f[k + 1]
  IN f[0]
BitOr8(a, b) ==
  LET f[k \in 0..8] ==
        IF k = 8 THEN 0
        ELSE (IF Bit(a, k) + Bit(b, k) > 0 THEN 1 ELSE 0) * (2 ^ k) + f[k + 1]
  IN f[0]
BitXor8(a, b) ==
  LET f[k \in 0..8] == IF k = 8 THEN 0
                       ELSE ((Bit(a, k) + Bit(b, k)) % 2) * (2 ^ k) + f[k + 1]
  IN f[0]

(***************************************************************************)
(* CRxdScript::GetOp: read the opcode at byte offset pc and, for a         *)
(* push-data opcode, the bytes it carries.  Opcodes 0x01..0x4b carry that  *)
(* many bytes; OP_PUSHDATA1/2/4 carry a little-endian length of 1/2/4      *)
(* bytes followed by the data; a reference opcode carries the 36 bytes    *)
(* of its reference.  Fails when the script ends too early.                *)
(***************************************************************************)
IsReferenceOpcode(opcode) ==
  opcode \in {OP_PUSHINPUTREF, OP_REQUIREINPUTREF, OP_DISALLOWPUSHINPUTREF,
              OP_DISALLOWPUSHINPUTREFSIBLING, OP_PUSHINPUTREFSINGLETON}

GetOp(script, pc) ==
  LET opcode == script[pc + 1]
      lenBytes == CASE opcode = OP_PUSHDATA1 -> 1
                    [] opcode = OP_PUSHDATA2 -> 2
                    [] opcode = OP_PUSHDATA4 -> 4
                    [] OTHER -> 0
      fail == [ok |-> FALSE, opcode |-> opcode, data |-> <<>>, pc |-> pc]
  IN IF IsReferenceOpcode(opcode)
     THEN IF pc + 1 + REF_SIZE > Len(script) THEN fail
          ELSE [ok |-> TRUE, opcode |-> opcode,
                data |-> SubSeq(script, pc + 2, pc + 1 + REF_SIZE),
                pc |-> pc + 1 + REF_SIZE]
     ELSE IF opcode > OP_PUSHDATA4
     THEN [ok |-> TRUE, opcode |-> opcode, data |-> <<>>, pc |-> pc + 1]
     ELSE IF pc + 1 + lenBytes > Len(script) THEN fail
     ELSE LET size == IF lenBytes = 0 THEN opcode
                      ELSE LittleEndian(SubSeq(script, pc + 2, pc + 1 + lenBytes))
              first == pc + 1 + lenBytes
          IN IF first + size > Len(script) THEN fail
             ELSE [ok |-> TRUE, opcode |-> opcode,
                   data |-> SubSeq(script, first + 1, first + size),
                   pc |-> first + size]

(***************************************************************************)
(* RxdExecutionContext: the transaction, the coins being spent and the     *)
(* index of the input being verified.  NoContext is the null pointer.      *)
(***************************************************************************)
NoContext == [null |-> TRUE]
EmptyTx == [nVersion |-> 0, vin |-> <<>>, vout |-> <<>>, nLockTime |-> 0]
CreateContext(tx, inputCoins, inputIndex) ==
  [tx |-> tx, inputCoins |-> inputCoins, inputIndex |-> inputIndex]
CreateMinimalContext == CreateContext(EmptyTx, <<>>, 0)
GetInputIndex(ctx) == ctx.inputIndex
GetInputCount(ctx) == Len(ctx.tx.vin)
GetOutputCount(ctx) == Len(ctx.tx.vout)
GetTxVersion(ctx) == ctx.tx.nVersion
GetLockTime(ctx) == ctx.tx.nLockTime
\* the int64 index is passed as unsigned int: a negative one becomes huge
IsValidInputIndex(ctx, index) == index >= 0 /\ index < Len(ctx.inputCoins)
IsValidOutputIndex(ctx, index) == index >= 0 /\ index < Len(ctx.tx.vout)
GetUtxoValue(ctx, index) ==
  IF index >= Len(ctx.inputCoins) THEN 0 ELSE ctx.inputCoins[index + 1].value
GetUtxoBytecode(ctx, index) ==
  IF index >= Len(ctx.inputCoins) THEN <<>>
  ELSE ctx.inputCoins[index + 1].scriptPubKey
GetInputSequence(ctx, index) ==
  IF index >= Len(ctx.tx.vin) THEN 0 ELSE ctx.tx.vin[index + 1].nSequence
GetOutputValue(ctx, index) ==
  IF index >= Len(ctx.tx.vout) THEN 0 ELSE ctx.tx.vout[index + 1].nValue
GetOutputBytecode(ctx, index) ==
  IF index >= Len(ctx.tx.vout) THEN <<>>
  ELSE ctx.tx.vout[index + 1].scriptPubKey

(***************************************************************************)
(* RxdExecutionContext::Impl: the reference summaries the constructor      *)
(* computes for the script of every input coin and of every output, and    *)
(* the queries over them.  NO_SEPARATOR stands for the sentinel            *)
(* 0xFFFFFFFF, which is no byte index of a script; NoTx is the null        *)
(* transaction pointer.                                                    *)
(***************************************************************************)
NO_SEPARATOR == -1
NoTx == [null |-> TRUE]

EmptySummary ==
  [value |-> 0, pushRefSet |-> {}, requireRefSet |-> {},
   disallowSiblingRefSet |-> {}, singletonRefSet |-> {},
   stateSeparatorByteIndex |-> NO_SEPARATOR]

\* the switch of the scan: the opcode read at byte offset byteIndex
SummaryAfterOp(summary, opcode, data, byteIndex) ==
  CASE opcode = OP_PUSHINPUTREF ->
         IF Len(data) = REF_SIZE
         THEN [summary EXCEPT !.pushRefSet = @ \cup {data}] ELSE summary
    [] opcode = OP_REQUIREINPUTREF ->
         IF Len(data) = REF_SIZE
         THEN [summary EXCEPT !.requireRefSet = @ \cup {data}] ELSE summary
    [] opcode = OP_DISALLOWPUSHINPUTREFSIBLING ->
         IF Len(data) = REF_SIZE
         THEN [summary EXCEPT !.disallowSiblingRefSet = @ \cup {data}]
         ELSE summary
    [] opcode = OP_PUSHINPUTREFSINGLETON ->
         IF Len(data) = REF_SIZE
         THEN [summary EXCEPT !.singletonRefSet = @ \cup {data}] ELSE summary
    [] opcode = OP_STATESEPARATOR ->
         IF summary.stateSeparatorByteIndex = NO_SEPARATOR
         THEN [summary EXCEPT !.stateSeparatorByteIndex = byteIndex]
         ELSE summary
    [] OTHER -> summary

\* the scan loop from byte offset pc on: it ends where GetOp returns false
RECURSIVE SummaryFrom(_, _, _)
SummaryAfterGetOp(script, pc, summary, op) ==
  IF ~op.ok THEN summary
  ELSE SummaryFrom(script, op.pc,
                   SummaryAfterOp(summary, op.opcode, op.data, pc))
SummaryFrom(script, pc, summary) ==
  IF pc >= Len(script) THEN summary
  ELSE SummaryAfterGetOp(script, pc, summary, GetOp(script, pc))

ComputePushRefSummary(script) == SummaryFrom(script, 0, EmptySummary)

\* the union of the pushRefSet of every summary
PushRefsOf(summaries) ==
  UNION {summaries[i].pushRefSet : i \in 1..Len(summaries)}

ComputeRefSummaries(tx, inputCoins) ==
  LET ins == [i \in 1..Len(inputCoins) |->
                ComputePushRefSummary(inputCoins[i].scriptPubKey)]
      outs == IF tx = NoTx THEN <<>>
              ELSE [i \in 1..Len(tx.vout) |->
                      ComputePushRefSummary(tx.vout[i].scriptPubKey)]
  IN [inputPushRefSummaries |-> ins, outputPushRefSummaries |-> outs,
      inputPushRefs |-> PushRefsOf(ins), outputPushRefs |-> PushRefsOf(outs)]

\* the constructor of Impl: the members and the computed summaries
NewImpl(tx, inputCoins, inputIndex) ==
  [tx |-> tx, inputCoins |-> inputCoins, inputIndex |-> inputIndex,
   refs |-> ComputeRefSummaries(tx, inputCoins)]

GetStateSeparatorIndexUtxo(impl, index) ==
  IF index >= Len(impl.refs.inputPushRefSummaries) THEN NO_SEPARATOR
  ELSE impl.refs.inputPushRefSummaries[index + 1].stateSeparatorByteIndex

GetStateSeparatorIndexOutput(impl, index) ==
  IF index >= Len(impl.refs.outputPushRefSummaries) THEN NO_SEPARATOR
  ELSE impl.refs.outputPushRefSummaries[index + 1].stateSeparatorByteIndex

\* the code script keeping the separator byte
CodeScript_FromSeparator(script, sepIdx) ==
  IF sepIdx = NO_SEPARATOR THEN script
  ELSE SubSeq(script, sepIdx + 1, Len(script))

\* the bytes after the separator, or the whole script without one
CodeScript(script, sepIdx) ==
  IF sepIdx = NO_SEPARATOR THEN script
  ELSE SubSeq(script, sepIdx + 2, Len(script))

\* the bytes before the separator, or nothing without one
StateScript(script, sepIdx) ==
  IF sepIdx = NO_SEPARATOR THEN <<>>
  ELSE SubSeq(script, 1, sepIdx)

GetCodeScriptBytecodeUtxo(impl, index) ==
  IF index >= Len(impl.inputCoins) THEN <<>>
  ELSE CodeScript(impl.inputCoins[index + 1].scriptPubKey,
                  GetStateSeparatorIndexUtxo(impl, index))

GetCodeScriptBytecodeOutput(impl, index) ==
  IF impl.tx = NoTx THEN <<>>
  ELSE IF index >= Len(impl.tx.vout) THEN <<>>
  ELSE CodeScript(impl.tx.vout[index + 1].scriptPubKey,
                  GetStateSeparatorIndexOutput(impl, index))

GetStateScriptBytecodeUtxo(impl, index) ==
  IF index >= Len(impl.inputCoins) THEN <<>>
  ELSE StateScript(impl.inputCoins[index + 1].scriptPubKey,
                   GetStateSeparatorIndexUtxo(impl, index))

GetStateScriptBytecodeOutput(impl, index) ==
  IF impl.tx = NoTx THEN <<>>
  ELSE IF index >= Len(impl.tx.vout) THEN <<>>
  ELSE StateScript(impl.tx.vout[index + 1].scriptPubKey,
                   GetStateSeparatorIndexOutput(impl, index))

\* the aggregation loops: i runs over the summaries, from the first
RECURSIVE RefValueSum(_, _, _, _)
RefValueSum(summaries, values, ref, i) ==
  IF i > Len(summaries) THEN 0
  ELSE (IF ref \in summaries[i].pushRefSet THEN values[i] ELSE 0)
       + RefValueSum(summaries, values, ref, i + 1)

\* a count that takes the references of the last summary only
RefOutputCount_LastOnly(summaries, ref) ==
  IF summaries # <<>> /\ ref \in summaries[Len(summaries)].pushRefSet
  THEN 1 ELSE 0

RECURSIVE RefCountFrom(_, _, _)
RefCountFrom(summaries, ref, i) ==
  IF i > Len(summaries) THEN 0
  ELSE (IF ref \in summaries[i].pushRefSet THEN 1 ELSE 0)
       + RefCountFrom(summaries, ref, i + 1)

RefOutputCount(summaries, ref) == RefCountFrom(summaries, ref, 1)

GetRefValueSumUtxos(impl, ref) ==
  RefValueSum(impl.refs.inputPushRefSummaries,
              [i \in 1..Len(impl.inputCoins) |-> impl.inputCoins[i].value],
              ref, 1)

GetRefValueSumOutputs(impl, ref) ==
  IF impl.tx = NoTx THEN 0
  ELSE RefValueSum(impl.refs.outputPushRefSummaries,
                   [i \in 1..Len(impl.tx.vout) |-> impl.tx.vout[i].nValue],
                   ref, 1)

GetRefOutputCountUtxos(impl, ref) ==
  RefOutputCount(impl.refs.inputPushRefSummaries, ref)

GetRefOutputCountOutputs(impl, ref) ==
  RefOutputCount(impl.refs.outputPushRefSummaries, ref)

(***************************************************************************)
(* CRxdTx::Serialize and CRxdTx::Deserialize.  A uint32 is held as two and *)
(* a uint64 as four 16-bit limbs, least significant first; nVersion is an  *)
(* int32; nValue is held as the uint64 it is cast to.  Sizes are naturals  *)
(* below 2^31.                                                             *)
(***************************************************************************)
LIMB == 65536

\* (n >> (8 * i)) & 0xff
ByteOf(limbs, i) ==
  (limbs[(i \div 2) + 1] \div (IF i % 2 = 0 THEN 1 ELSE 256)) % 256

\* the bytes of a uint32 or uint64, little-endian
WriteLE(limbs) == [i \in 1..(2 * Len(limbs)) |-> ByteOf(limbs, i - 1)]

\* the int32 as the uint32 its bits are, and back
ToU32(n) == <<n % LIMB, (n \div LIMB) % LIMB>>
ToInt32(limbs) ==
  IF limbs[2] >= LIMB \div 2 THEN (limbs[2] - LIMB) * LIMB + limbs[1]
  ELSE limbs[2] * LIMB + limbs[1]

\* WriteVarInt writing 0xfd itself in one byte
WriteVarInt_OneByteFd(n) ==
  IF n <= 253 THEN <<n>>
  ELSE IF n <= 65535 THEN <<253, n % 256, (n \div 256) % 256>>
  ELSE <<254>> \o WriteLE(ToU32(n))

\* sizes above 0xffffffff do not occur below 2^31
WriteVarInt(n) ==
  IF n < 253 THEN <<n>>
  ELSE IF n <= 65535 THEN <<253, n % 256, (n \div 256) % 256>>
  ELSE <<254>> \o WriteLE(ToU32(n))

SerializeTxIn(in) ==
  in.prevout.txid \o WriteLE(in.prevout.n)
    \o WriteVarInt(Len(in.scriptSig)) \o in.scriptSig
    \o WriteLE(in.nSequence)

SerializeTxOut(out) ==
  WriteLE(out.nValue) \o WriteVarInt(Len(out.scriptPubKey))
    \o out.scriptPubKey

\* the items written one after the other; the list is split in halves to
\* bound the depth of the evaluation
RECURSIVE Flatten(_)
Flatten(ss) ==
  IF ss = <<>> THEN <<>>
  ELSE IF Len(ss) = 1 THEN ss[1]
  ELSE Flatten(SubSeq(ss, 1, Len(ss) \div 2))
         \o Flatten(SubSeq(ss, Len(ss) \div 2 + 1, Len(ss)))

Serialize(tx) ==
  WriteLE(ToU32(tx.nVersion))
    \o WriteVarInt(Len(tx.vin))
    \o Flatten([i \in 1..Len(tx.vin) |-> SerializeTxIn(tx.vin[i])])
    \o WriteVarInt(Len(tx.vout))
    \o Flatten([i \in 1..Len(tx.vout) |-> SerializeTxOut(tx.vout[i])])
    \o WriteLE(tx.nLockTime)

\* a CRxdTx with these fields
WireTx(version, vin, vout, locktime) ==
  [nVersion |-> version, vin |-> vin, vout |-> vout, nLockTime |-> locktime]

\* a read that throws "Unexpected end of data"
Thrown == [ok |-> FALSE]
Read(val, pos) == [ok |-> TRUE, val |-> val, pos |-> pos]

ReadLE32(data, pos) ==
  IF pos + 4 > Len(data) THEN Thrown
  ELSE Read(<<data[pos + 1] + 256 * data[pos + 2],
              data[pos + 3] + 256 * data[pos + 4]>>, pos + 4)

ReadLE64(data, pos) ==
  IF pos + 8 > Len(data) THEN Thrown
  ELSE Read([j \in 1..4 |->
               data[pos + 2 * j - 1] + 256 * data[pos + 2 * j]], pos + 8)

\* a size read from the wire; one of 2^31 or more cannot be met by the data
\* and the reads that follow it throw (pos + n wraps only for sizes within
\* len of 2^64, which no transaction here is written with)
HUGE == -1
ToSize(limbs) ==
  IF \E j \in 3..Len(limbs) : limbs[j] # 0 THEN HUGE
  ELSE IF limbs[2] >= LIMB \div 2 THEN HUGE
  ELSE limbs[2] * LIMB + limbs[1]

SizeOf(r) == IF r.ok THEN Read(ToSize(r.val), r.pos) ELSE Thrown

ReadVarInt(data, pos) ==
  IF pos >= Len(data) THEN Thrown
  ELSE IF data[pos + 1] < 253 THEN Read(data[pos + 1], pos + 1)
  ELSE IF data[pos + 1] = 253
  THEN IF pos + 1 + 2 > Len(data) THEN Thrown
       ELSE Read(data[pos + 2] + 256 * data[pos + 3], pos + 3)
  ELSE IF data[pos + 1] = 254 THEN SizeOf(ReadLE32(data, pos + 1))
  ELSE SizeOf(ReadLE64(data, pos + 1))

ReadBytes(data, pos, n) ==
  IF n = HUGE \/ pos + n > Len(data) THEN Thrown
  ELSE Read(SubSeq(data, pos + 1, pos + n), pos + n)

\* the script of an input or an output: its length, then its bytes
ReadScript(data, len) ==
  IF len.ok THEN ReadBytes(data, len.pos, len.val) ELSE Thrown

\* one iteration of the input loop
ReadTxInSequence(data, txid, n, script) ==
  IF ~script.ok THEN Thrown
  ELSE IF ~ReadLE32(data, script.pos).ok THEN Thrown
  ELSE Read([prevout |-> [txid |-> txid.val, n |-> n.val],
             scriptSig |-> script.val,
             nSequence |-> ReadLE32(data, script.pos).val],
            ReadLE32(data, script.pos).pos)

ReadTxInPrevIndex(data, txid, n) ==
  IF ~n.ok THEN Thrown
  ELSE ReadTxInSequence(data, txid, n,
                        ReadScript(data, ReadVarInt(data, n.pos)))

ReadTxIn(data, txid) ==
  IF ~txid.ok THEN Thrown
  ELSE ReadTxInPrevIndex(data, txid, ReadLE32(data, txid.pos))

\* one iteration of the output loop
ReadTxOutScript(value, script) ==
  IF ~script.ok THEN Thrown
  ELSE Read([nValue |-> value.val, scriptPubKey |-> script.val], script.pos)

ReadTxOut(data, value) ==
  IF ~value.ok THEN Thrown
  ELSE ReadTxOutScript(value,
                       ReadScript(data, ReadVarInt(data, value.pos)))

\* the input loop and the output loop: count items from pos on, each read
\* where the one before it ended; the count is split in halves to bound the
\* depth of the evaluation
ReadItem(data, pos, isInput) ==
  IF isInput THEN ReadTxIn(data, ReadBytes(data, pos, 32))
  ELSE ReadTxOut(data, ReadLE64(data, pos))

PushBack(item) == IF item.ok THEN Read(<<item.val>>, item.pos) ELSE Thrown

ReadJoin(first, rest) ==
  IF ~rest.ok THEN Thrown
  ELSE Read(first.val \o rest.val, rest.pos)

RECURSIVE ReadItems(_, _, _, _)
ReadItemsRest(data, first, count, isInput) ==
  IF ~first.ok THEN Thrown
  ELSE ReadJoin(first, ReadItems(data, first.pos, count, isInput))

ReadItems(data, pos, count, isInput) ==
  IF count = HUGE THEN Thrown
  ELSE IF count = 0 THEN Read(<<>>, pos)
  ELSE IF count = 1 THEN PushBack(ReadItem(data, pos, isInput))
  ELSE ReadItemsRest(data, ReadItems(data, pos, count \div 2, isInput),
                     count - count \div 2, isInput)

DeserializeLockTime(version, ins, outs, locktime) ==
  IF ~locktime.ok THEN Thrown
  ELSE [ok |-> TRUE,
        tx |-> [nVersion |-> ToInt32(version.val), vin |-> ins.val,
                vout |-> outs.val, nLockTime |-> locktime.val]]

DeserializeOutputs(data, version, ins, outs) ==
  IF ~outs.ok THEN Thrown
  ELSE DeserializeLockTime(version, ins, outs, ReadLE32(data, outs.pos))

DeserializeOutputCount(data, version, ins, count) ==
  IF ~count.ok THEN Thrown
  ELSE DeserializeOutputs(data, version, ins,
                          ReadItems(data, count.pos, count.val, FALSE))

DeserializeInputs(data, version, ins) ==
  IF ~ins.ok THEN Thrown
  ELSE DeserializeOutputCount(data, version, ins,
                              ReadVarInt(data, ins.pos))

DeserializeInputCount(data, version, count) ==
  IF ~count.ok THEN Thrown
  ELSE DeserializeInputs(data, version,
                         ReadItems(data, count.pos, count.val, TRUE))

DeserializeVersion(data, version) ==
  IF ~version.ok THEN Thrown
  ELSE DeserializeInputCount(data, version, ReadVarInt(data, version.pos))

Deserialize(data) == DeserializeVersion(data, ReadLE32(data, 0))

(***************************************************************************)
(* SignatureChecker::CheckSig.  The signature hash and the secp256k1       *)
(* verification are the library's: ecdsa says whether the signature is a   *)
(* valid encoding that verifies against the key and the hash.              *)
(***************************************************************************)
SIGHASH_FORKID == 64
SIGHASH_ANYONECANPAY == 128

GetSigHashType(sig) == IF sig = <<>> THEN 0 ELSE sig[Len(sig)]

\* HasForkId testing the ANYONECANPAY bit
HasForkId_AnyoneCanPay(nHashType) ==
  (nHashType \div SIGHASH_ANYONECANPAY) % 2 # 0

HasForkId(nHashType) == (nHashType \div SIGHASH_FORKID) % 2 # 0

IsValidPubKey(pubkey) ==
  IF Len(pubkey) = 33 THEN pubkey[1] = 2 \/ pubkey[1] = 3
  ELSE IF Len(pubkey) = 65 THEN pubkey[1] = 4
  ELSE FALSE

VerifySignature(pubkey, sig, ecdsa) == IsValidPubKey(pubkey) /\ ecdsa

CheckSig(sig, pubkey, ecdsa) ==
  IF sig = <<>> THEN FALSE
  ELSE IF ~HasForkId(GetSigHashType(sig)) THEN FALSE
  ELSE VerifySignature(pubkey, sig, ecdsa)

\* field by field: operator== of CRxdTx is not defined, the fields' are
SameTx(a, b) ==
  /\ a.nVersion = b.nVersion
  /\ a.nLockTime = b.nLockTime
  /\ Len(a.vin) = Len(b.vin)
  /\ \A i \in 1..Len(a.vin) :
        /\ a.vin[i].prevout.txid = b.vin[i].prevout.txid
        /\ a.vin[i].prevout.n = b.vin[i].prevout.n
        /\ a.vin[i].scriptSig = b.vin[i].scriptSig
        /\ a.vin[i].nSequence = b.vin[i].nSequence
  /\ Len(a.vout) = Len(b.vout)
  /\ \A i \in 1..Len(a.vout) :
        /\ a.vout[i].nValue = b.vout[i].nValue
        /\ a.vout[i].scriptPubKey = b.vout[i].scriptPubKey

(***************************************************************************)
(* VMState after Reset, before the script is chosen.                       *)
(***************************************************************************)
FreshState ==
  [stack |-> <<>>, altstack |-> <<>>, script |-> <<>>, pc |-> 0,
   opIndex |-> 0, opCount |-> 0, done |-> FALSE, success |-> FALSE,
   error |-> "OK", vfExec |-> <<>>,
   pushRefs |-> {}, requireRefs |-> {}, singletonRefs |-> {}]

\* the outcome of ExecuteOpcode: the error returned and the state it left
Res(e, st) == [err |-> e, st |-> st]
Ok(st) == Res("OK", st)
SetStack(st, s) == [st EXCEPT !.stack = s]
Push(st, v) == [st EXCEPT !.stack = Append(st.stack, v)]

(***************************************************************************)
(* ExecuteOpcode, the switch: stack operations.                            *)
(***************************************************************************)
ExecStackOp(st, opcode) ==
  LET stack == st.stack
      n == Len(st.stack)
      ISO == Res("INVALID_STACK_OPERATION", st)
  IN CASE opcode = OP_DUP ->
            IF n < 1 THEN ISO ELSE Ok(Push(st, Top(stack)))
       [] opcode = OP_DROP ->
            IF n < 1 THEN ISO ELSE Ok(SetStack(st, Pop(stack)))
       [] opcode = OP_2DROP ->
            IF n < 2 THEN ISO ELSE Ok(SetStack(st, PopN(stack, 2)))
       [] opcode = OP_2DUP ->
            IF n < 2 THEN ISO
            ELSE Ok(SetStack(st, stack \o <<At(stack, 1), At(stack, 0)>>))
       [] opcode = OP_3DUP ->
            IF n < 3 THEN ISO
            ELSE Ok(SetStack(st, stack \o
                      <<At(stack, 2), At(stack, 1), At(stack, 0)>>))
       [] opcode = OP_NIP ->
            IF n < 2 THEN ISO ELSE Ok(SetStack(st, EraseAt(stack, n - 1)))
       [] opcode = OP_OVER ->
            IF n < 2 THEN ISO ELSE Ok(Push(st, At(stack, 1)))
       [] opcode = OP_SWAP ->
            IF n < 2 THEN ISO
            ELSE Ok(SetStack(st, PopN(stack, 2) \o
                      <<At(stack, 0), At(stack, 1)>>))
       [] opcode = OP_ROT ->
            IF n < 3 THEN ISO
            ELSE Ok(SetStack(st, Append(EraseAt(stack, n - 2), At(stack, 2))))
       [] opcode = OP_TUCK ->
            IF n < 2 THEN ISO
            ELSE Ok(SetStack(st, PopN(stack, 2) \o
                      <<At(stack, 0), At(stack, 1), At(stack, 0)>>))
       [] opcode = OP_DEPTH -> Ok(Push(st, ScriptNumSerialize(n)))
       [] opcode = OP_TOALTSTACK ->
            IF n < 1 THEN ISO
            ELSE Ok([st EXCEPT !.altstack = Append(st.altstack, Top(stack)),
                               !.stack = Pop(stack)])
       [] opcode = OP_FROMALTSTACK ->
            IF Len(st.altstack) < 1
            THEN Res("INVALID_ALTSTACK_OPERATION", st)
            ELSE Ok([st EXCEPT !.stack = Append(stack, Top(st.altstack)),
                               !.altstack = Pop(st.altstack)])
       [] opcode = OP_IFDUP ->
            IF n < 1 THEN ISO
            ELSE IF CastToBool(Top(stack)) THEN Ok(Push(st, Top(stack)))
                 ELSE Ok(st)
       [] opcode \in {OP_PICK, OP_ROLL} ->
            IF n < 1 THEN ISO
            ELSE LET k == ScriptNumDeserialize(Top(stack))
                     popped == Pop(stack)
                 IN IF k < 0 \/ k >= Len(popped)
                    THEN Res("INVALID_STACK_OPERATION", SetStack(st, popped))
                    ELSE LET v == At(popped, k)
                             rest == IF opcode = OP_ROLL
                                     THEN EraseAt(popped, Len(popped) - k)
                                     ELSE popped
                         IN Ok(SetStack(st, Append(rest, v)))

IsStackOp(opcode) ==
  opcode \in {OP_DUP, OP_DROP, OP_2DROP, OP_2DUP, OP_3DUP, OP_NIP, OP_OVER,
              OP_SWAP, OP_ROT, OP_TUCK, OP_DEPTH, OP_TOALTSTACK,
              OP_FROMALTSTACK, OP_IFDUP, OP_PICK, OP_ROLL}

(***************************************************************************)
(* ExecuteOpcode, the switch: arithmetic, comparison and boolean opcodes.  *)
(* Each decodes its operands, pops them and pushes the encoded result.     *)
(***************************************************************************)
BoolNum(b) == IF b THEN 1 ELSE 0

\* a VERIFY form that leaves the pushed comparison result on the stack
VerifyForm_KeepsResult(pushed, result, err) ==
  IF ~result THEN Res(err, pushed) ELSE Ok(pushed)

\* the VERIFY forms, after the comparison result was pushed: a false result
\* is returned as the error err, a true one is popped again
VerifyForm(pushed, result, err) ==
  IF ~result THEN Res(err, pushed)
  ELSE Ok(SetStack(pushed, Pop(pushed.stack)))

UnaryResult(opcode, x) ==
  CASE opcode = OP_1ADD -> x + 1
    [] opcode = OP_1SUB -> x - 1
    [] opcode = OP_NEGATE -> -x
    [] opcode = OP_ABS -> IF x < 0 THEN -x ELSE x
    [] opcode = OP_NOT -> BoolNum(x = 0)
    [] opcode = OP_0NOTEQUAL -> BoolNum(x # 0)

BinaryResult(opcode, a, b) ==
  CASE opcode = OP_ADD -> a + b
    [] opcode = OP_SUB -> a - b
    [] opcode = OP_MUL -> a * b
    [] opcode = OP_DIV -> TruncDiv(a, b)
    [] opcode = OP_MOD -> TruncMod(a, b)
    [] opcode = OP_NUMNOTEQUAL -> BoolNum(a # b)
    [] opcode = OP_LESSTHAN -> BoolNum(a < b)
    [] opcode = OP_GREATERTHAN -> BoolNum(a > b)
    [] opcode = OP_LESSTHANOREQUAL -> BoolNum(a <= b)
    [] opcode = OP_GREATERTHANOREQUAL -> BoolNum(a >= b)
    [] opcode = OP_MIN -> IF b < a THEN b ELSE a
    [] opcode = OP_MAX -> IF a < b THEN b ELSE a

IsUnaryNumOp(opcode) ==
  opcode \in {OP_1ADD, OP_1SUB, OP_NEGATE, OP_ABS, OP_NOT, OP_0NOTEQUAL}
IsBinaryNumOp(opcode) ==
  opcode \in {OP_ADD, OP_SUB, OP_MUL, OP_DIV, OP_MOD, OP_NUMNOTEQUAL,
              OP_LESSTHAN, OP_GREATERTHAN, OP_LESSTHANOREQUAL,
              OP_GREATERTHANOREQUAL, OP_MIN, OP_MAX}
IsNumericOp(opcode) ==
  \/ IsUnaryNumOp(opcode) \/ IsBinaryNumOp(opcode)
  \/ opcode \in {OP_NUMEQUAL, OP_NUMEQUALVERIFY, OP_WITHIN,
                 OP_BOOLAND, OP_BOOLOR}

ExecNumericOp(st, opcode) ==
  LET stack == st.stack
      n == Len(st.stack)
      ISO == Res("INVALID_STACK_OPERATION", st)
  IN CASE IsUnaryNumOp(opcode) ->
            IF n < 1 THEN ISO
            ELSE Ok(SetStack(st, Append(Pop(stack),
                   ScriptNumSerialize(
                     UnaryResult(opcode, ScriptNumDeserialize(Top(stack)))))))
       [] IsBinaryNumOp(opcode) ->
            IF n < 2 THEN ISO
            ELSE LET a == ScriptNumDeserialize(At(stack, 1))
                     b == ScriptNumDeserialize(At(stack, 0))
                 IN IF opcode \in {OP_DIV, OP_MOD} /\ b = 0 THEN ISO
                    ELSE Ok(SetStack(st, Append(PopN(stack, 2),
                           ScriptNumSerialize(BinaryResult(opcode, a, b)))))
       [] opcode \in {OP_NUMEQUAL, OP_NUMEQUALVERIFY} ->
            IF n < 2 THEN ISO
            ELSE LET a == ScriptNumDeserialize(At(stack, 1))
                     b == ScriptNumDeserialize(At(stack, 0))
                     result == (a = b)
                     pushed == SetStack(st, Append(PopN(stack, 2),
                                 ScriptNumSerialize(BoolNum(result))))
                 IN IF opcode = OP_NUMEQUALVERIFY
                    THEN VerifyForm(pushed, result, "NUMEQUALVERIFY")
                    ELSE Ok(pushed)
       [] opcode = OP_WITHIN ->
            IF n < 3 THEN ISO
            ELSE LET x == ScriptNumDeserialize(At(stack, 2))
                     min == ScriptNumDeserialize(At(stack, 1))
                     max == ScriptNumDeserialize(At(stack, 0))
                 IN Ok(SetStack(st, Append(PopN(stack, 3),
                      ScriptNumSerialize(BoolNum(min <= x /\ x < max)))))
       [] opcode \in {OP_BOOLAND, OP_BOOLOR} ->
            IF n < 2 THEN ISO
            ELSE LET a == CastToBool(At(stack, 1))
                     b == CastToBool(At(stack, 0))
                     r == IF opcode = OP_BOOLAND THEN a /\ b ELSE a \/ b
                 IN Ok(SetStack(st, Append(PopN(stack, 2),
                      ScriptNumSerialize(BoolNum(r)))))

(***************************************************************************)
(* ExecuteOpcode, the switch: equality, size, splice and bitwise opcodes.  *)
(***************************************************************************)
BitwiseResult(opcode, a, b) ==
  [i \in 1..Len(a) |->
     CASE opcode = OP_AND -> BitAnd8(a[i], b[i])
       [] opcode = OP_OR -> BitOr8(a[i], b[i])
       [] opcode = OP_XOR -> BitXor8(a[i], b[i])]

\* OP_SPLIT refusing the index at the end of the data
SplitAt_Exclusive(st, data, pos) ==
  IF pos < 0 \/ pos >= Len(data)
  THEN Res("INVALID_STACK_OPERATION", SetStack(st, Pop(st.stack)))
  ELSE Ok(SetStack(st, PopN(st.stack, 2) \o
         <<SubSeq(data, 1, pos), SubSeq(data, pos + 1, Len(data))>>))

\* OP_SPLIT once the stack depth is checked: data under the index pos
SplitAt(st, data, pos) ==
  IF pos < 0 \/ pos > Len(data)
  THEN Res("INVALID_STACK_OPERATION", SetStack(st, Pop(st.stack)))
  ELSE Ok(SetStack(st, PopN(st.stack, 2) \o
         <<SubSeq(data, 1, pos), SubSeq(data, pos + 1, Len(data))>>))

IsBytesOp(opcode) ==
  opcode \in {OP_EQUAL, OP_EQUALVERIFY, OP_SIZE, OP_CAT, OP_SPLIT,
              OP_AND, OP_OR, OP_XOR}

ExecBytesOp(st, opcode) ==
  LET stack == st.stack
      n == Len(st.stack)
      ISO == Res("INVALID_STACK_OPERATION", st)
  IN CASE opcode \in {OP_EQUAL, OP_EQUALVERIFY} ->
            IF n < 2 THEN ISO
            ELSE LET result == (At(stack, 1) = At(stack, 0))
                     pushed == SetStack(st, Append(PopN(stack, 2),
                                 ScriptNumSerialize(BoolNum(result))))
                 IN IF opcode = OP_EQUALVERIFY
                    THEN VerifyForm(pushed, result, "EQUALVERIFY")
                    ELSE Ok(pushed)
       [] opcode = OP_SIZE ->
            IF n < 1 THEN ISO
            ELSE Ok(Push(st, ScriptNumSerialize(Len(Top(stack)))))
       [] opcode = OP_CAT ->
            IF n < 2 THEN ISO
            ELSE IF Len(At(stack, 1)) + Len(At(stack, 0))
                      > MAX_SCRIPT_ELEMENT_SIZE
                 THEN Res("PUSH_SIZE", st)
                 ELSE Ok(SetStack(st, Append(PopN(stack, 2),
                        At(stack, 1) \o At(stack, 0))))
       [] opcode = OP_SPLIT ->
            IF n < 2 THEN ISO
            ELSE SplitAt(st, At(stack, 1), ScriptNumDeserialize(Top(stack)))
       [] opcode \in {OP_AND, OP_OR, OP_XOR} ->
            IF n < 2 THEN ISO
            ELSE IF Len(At(stack, 1)) # Len(At(stack, 0)) THEN ISO
                 ELSE Ok(SetStack(st, Append(PopN(stack, 2),
                        BitwiseResult(opcode, At(stack, 1), At(stack, 0)))))

(***************************************************************************)
(* ExecuteOpcode, the switch: control flow.  fExec is the value computed   *)
(* at the head of ExecuteOpcode.                                           *)
(***************************************************************************)
IsNop(opcode) ==
  opcode \in {OP_NOP, OP_NOP1} \/ (opcode >= OP_NOP4 /\ opcode <= OP_NOP10)

IsControlOp(opcode) ==
  \/ opcode \in {OP_IF, OP_NOTIF, OP_ELSE, OP_ENDIF, OP_VERIFY, OP_RETURN,
                 OP_STATESEPARATOR}
  \/ IsNop(opcode)

ExecControlOp(st, opcode, fExec) ==
  LET stack == st.stack
      vfExec == st.vfExec
      ISO == Res("INVALID_STACK_OPERATION", st)
  IN CASE opcode \in {OP_IF, OP_NOTIF} ->
            IF fExec
            THEN IF Len(stack) < 1 THEN ISO
                 ELSE LET b == CastToBool(Top(stack))
                          fValue == IF opcode = OP_NOTIF THEN ~b ELSE b
                      IN Ok([st EXCEPT !.stack = Pop(stack),
                                       !.vfExec = Append(vfExec, fValue)])
            ELSE Ok([st EXCEPT !.vfExec = Append(vfExec, FALSE)])
       [] opcode = OP_ELSE ->
            IF vfExec = <<>> THEN Res("UNBALANCED_CONDITIONAL", st)
            ELSE Ok([st EXCEPT !.vfExec = Append(Pop(vfExec), ~Top(vfExec))])
       [] opcode = OP_ENDIF ->
            IF vfExec = <<>> THEN Res("UNBALANCED_CONDITIONAL", st)
            ELSE Ok([st EXCEPT !.vfExec = Pop(vfExec)])
       [] opcode = OP_VERIFY ->
            IF Len(stack) < 1 THEN ISO
            ELSE IF ~CastToBool(Top(stack)) THEN Res("VERIFY", st)
                 ELSE Ok(SetStack(st, Pop(stack)))
       [] opcode = OP_RETURN -> Res("OP_RETURN", st)
       [] OTHER -> Ok(st)

(***************************************************************************)
(* ExecuteOpcode, the switch: native introspection.                        *)
(***************************************************************************)
IsIntrospectionOp(opcode) ==
  opcode \in {OP_INPUTINDEX, OP_TXVERSION, OP_TXINPUTCOUNT, OP_TXOUTPUTCOUNT,
              OP_TXLOCKTIME, OP_UTXOVALUE, OP_UTXOBYTECODE, OP_OUTPUTVALUE,
              OP_OUTPUTBYTECODE, OP_INPUTSEQUENCENUMBER}

\* the index handed to the context: the decoded number converted to the
\* unsigned int parameter, which is its value modulo 2^32; HUGE when that is
\* 2^31 or more, which no modelled vector has as a position
ToUnsignedInt(v) ==
  LET x == SignAndMagnitude(v)
      b(j) == IF j <= Len(x.mag) THEN x.mag[j] ELSE 0
      low31 == b(1) + 256 * b(2) + 65536 * b(3) + 16777216 * (b(4) % 128)
      top == b(4) >= 128
  IN IF ~x.neg THEN (IF top THEN HUGE ELSE low31)
     ELSE IF top THEN (IF low31 = 0 THEN HUGE ELSE (2147483647 - low31) + 1)
     ELSE IF low31 = 0 THEN 0 ELSE HUGE

ExecIntrospectionOp(st, opcode, ctx) ==
  LET stack == st.stack
      ISO == Res("INVALID_STACK_OPERATION", st)
  IN IF ctx = NoContext THEN Res("INTROSPECTION_CONTEXT_UNAVAILABLE", st)
     ELSE CASE opcode = OP_INPUTINDEX ->
                 Ok(Push(st, ScriptNumSerialize(GetInputIndex(ctx))))
            [] opcode = OP_TXVERSION ->
                 Ok(Push(st, ScriptNumSerialize(GetTxVersion(ctx))))
            [] opcode = OP_TXINPUTCOUNT ->
                 Ok(Push(st, ScriptNumSerialize(GetInputCount(ctx))))
            [] opcode = OP_TXOUTPUTCOUNT ->
                 Ok(Push(st, ScriptNumSerialize(GetOutputCount(ctx))))
            [] opcode = OP_TXLOCKTIME ->
                 Ok(Push(st, ScriptNumSerialize(GetLockTime(ctx))))
            [] OTHER ->
                 IF Len(stack) < 1 THEN ISO
                 ELSE LET idx == ToUnsignedInt(Top(stack))
                          popped == SetStack(st, Pop(stack))
                          valid == IF opcode \in {OP_OUTPUTVALUE,
                                                  OP_OUTPUTBYTECODE}
                                   THEN IsValidOutputIndex(ctx, idx)
                                   ELSE IsValidInputIndex(ctx, idx)
                      IN IF ~valid
                         THEN Res("INVALID_STACK_OPERATION", popped)
                         ELSE Ok(Push(popped,
                           CASE opcode = OP_UTXOVALUE ->
                                  ScriptNumSerialize(GetUtxoValue(ctx, idx))
                             [] opcode = OP_UTXOBYTECODE ->
                                  GetUtxoBytecode(ctx, idx)
                             [] opcode = OP_OUTPUTVALUE ->
                                  ScriptNumSerialize(GetOutputValue(ctx, idx))
                             [] opcode = OP_OUTPUTBYTECODE ->
                                  GetOutputBytecode(ctx, idx)
                             [] opcode = OP_INPUTSEQUENCENUMBER ->
                                  ScriptNumSerialize(
                                    GetInputSequence(ctx, idx))))

(***************************************************************************)
(* ExecuteOpcode, the switch: reference, hash and signature opcodes.       *)
(* The hash opcodes only check the stack depth; the signature opcodes pop  *)
(* the key and the signature and push true.                                *)
(***************************************************************************)
IsRefHashSigOp(opcode) ==
  opcode \in {OP_PUSHINPUTREF, OP_REQUIREINPUTREF, OP_SHA256, OP_HASH160,
              OP_HASH256, OP_CHECKSIG, OP_CHECKSIGVERIFY}

ExecRefHashSigOp(st, opcode) ==
  LET stack == st.stack
      n == Len(st.stack)
      ISO == Res("INVALID_STACK_OPERATION", st)
  IN CASE opcode = OP_PUSHINPUTREF ->
            IF n < 1 THEN ISO
            ELSE IF Len(Top(stack)) # REF_SIZE
                 THEN Res("INVALID_REFERENCE", st)
                 ELSE Ok([st EXCEPT !.pushRefs = @ \cup {Top(stack)}])
       [] opcode = OP_REQUIREINPUTREF ->
            IF n < 1 THEN ISO
            ELSE IF Len(Top(stack)) # REF_SIZE
                 THEN Res("INVALID_REFERENCE", SetStack(st, Pop(stack)))
                 ELSE Ok([st EXCEPT !.stack = Pop(stack),
                                    !.requireRefs = @ \cup {Top(stack)}])
       [] opcode \in {OP_SHA256, OP_HASH160, OP_HASH256} ->
            IF n < 1 THEN ISO ELSE Ok(st)
       [] opcode \in {OP_CHECKSIG, OP_CHECKSIGVERIFY} ->
            IF n < 2 THEN ISO
            ELSE IF opcode = OP_CHECKSIGVERIFY
                 THEN Ok(SetStack(st, PopN(stack, 2)))
                 ELSE Ok(SetStack(st, Append(PopN(stack, 2),
                        ScriptNumSerialize(1))))

(***************************************************************************)
(* RxdVMAdapter::Impl::ExecuteOpcode.  Only the innermost entry of the     *)
(* condition stack decides whether the opcode is skipped.  The pushes      *)
(* return before the stack-size check that follows the switch.             *)
(***************************************************************************)
ExecFlag(vfExec) == vfExec = <<>> \/ Top(vfExec)

IsConditionalOp(opcode) == opcode >= OP_IF /\ opcode <= OP_ENDIF

\* the opcodes ExecuteOpcode has a branch or a case label for
IsImplementedOp(opcode) ==
  \/ opcode <= OP_PUSHDATA4
  \/ (opcode >= OP_1 /\ opcode <= OP_16)
  \/ opcode = OP_1NEGATE
  \/ IsStackOp(opcode) \/ IsNumericOp(opcode) \/ IsBytesOp(opcode)
  \/ IsControlOp(opcode) \/ IsIntrospectionOp(opcode)
  \/ IsRefHashSigOp(opcode)

ExecuteSwitch(st, opcode, fExec, ctx) ==
  CASE IsStackOp(opcode) -> ExecStackOp(st, opcode)
    [] IsNumericOp(opcode) -> ExecNumericOp(st, opcode)
    [] IsBytesOp(opcode) -> ExecBytesOp(st, opcode)
    [] IsControlOp(opcode) -> ExecControlOp(st, opcode, fExec)
    [] IsIntrospectionOp(opcode) -> ExecIntrospectionOp(st, opcode, ctx)
    [] IsRefHashSigOp(opcode) -> ExecRefHashSigOp(st, opcode)
    [] OTHER -> Res("BAD_OPCODE", st)

\* ExecuteOpcode with the stack limit as a parameter
ExecuteOpcodeWithin(st, opcode, pushData, ctx, limit) ==
  LET fExec == ExecFlag(st.vfExec)
  IN IF ~fExec /\ ~IsConditionalOp(opcode) THEN Ok(st)
     ELSE IF opcode <= OP_PUSHDATA4
     THEN IF Len(pushData) > MAX_SCRIPT_ELEMENT_SIZE
          THEN Res("PUSH_SIZE", st)
          ELSE Ok(Push(st, pushData))
     ELSE IF opcode >= OP_1 /\ opcode <= OP_16
     THEN Ok(Push(st, <<opcode - OP_1 + 1>>))
     ELSE IF opcode = OP_1NEGATE THEN Ok(Push(st, <<129>>))
     ELSE LET r == ExecuteSwitch(st, opcode, fExec, ctx)
          IN IF r.err # "OK" THEN r
             ELSE IF Len(r.st.stack) + Len(r.st.altstack) > limit
                  THEN Res("STACK_SIZE", r.st)
                  ELSE r

ExecuteOpcode(st, opcode, pushData, ctx) ==
  ExecuteOpcodeWithin(st, opcode, pushData, ctx, MAX_STACK_SIZE)

(***************************************************************************)
(* RxdVMAdapter::Impl.  A VM is the record of its members: the two         *)
(* scripts, the context, the live state, the history and the script phase. *)
(***************************************************************************)
\* Reset leaving the script phase as it is
Reset_KeepPhase(vm) ==
  LET startInPubKey == vm.scriptSig = <<>> /\ vm.scriptPubKey # <<>>
  IN [vm EXCEPT
        !.currentState =
           [FreshState EXCEPT
              !.script = IF startInPubKey THEN vm.scriptPubKey
                         ELSE vm.scriptSig],
        !.history = <<>>]

Reset(vm) ==
  LET startInPubKey == vm.scriptSig = <<>> /\ vm.scriptPubKey # <<>>
  IN [vm EXCEPT
        !.currentState =
           [FreshState EXCEPT
              !.script = IF startInPubKey THEN vm.scriptPubKey
                         ELSE vm.scriptSig],
        !.history = <<>>,
        !.inScriptPubKey = startInPubKey]

NewVM(sig, pubkey, ctx) ==
  Reset([scriptSig |-> sig, scriptPubKey |-> pubkey, context |-> ctx,
         currentState |-> FreshState, history |-> <<>>,
         inScriptPubKey |-> FALSE])

\* EndOfScript with the verdict taken from the stack depth alone
EndOfScript_DepthOnly(st) ==
  IF st.vfExec # <<>>
  THEN [st EXCEPT !.done = TRUE, !.error = "UNBALANCED_CONDITIONAL",
                  !.success = FALSE]
  ELSE LET success == st.stack # <<>>
       IN [st EXCEPT !.done = TRUE, !.success = success,
                     !.error = IF success THEN st.error ELSE "EVAL_FALSE"]

\* Step, script exhausted and no further phase: the final verdict
EndOfScript(st) ==
  IF st.vfExec # <<>>
  THEN [st EXCEPT !.done = TRUE, !.error = "UNBALANCED_CONDITIONAL",
                  !.success = FALSE]
  ELSE LET success == st.stack # <<>> /\ CastToBool(Top(st.stack))
       IN [st EXCEPT !.done = TRUE, !.success = success,
                     !.error = IF success THEN st.error ELSE "EVAL_FALSE"]

\* EnterScriptPubKey marking the VM done at the hand-over
EnterScriptPubKey_Done(vm) ==
  [vm EXCEPT !.currentState.script = vm.scriptPubKey,
             !.currentState.pc = 0,
             !.currentState.done = TRUE,
             !.inScriptPubKey = TRUE]

\* Step, script exhausted and the locking script still to run
EnterScriptPubKey(vm) ==
  [vm EXCEPT !.currentState.script = vm.scriptPubKey,
             !.currentState.pc = 0,
             !.inScriptPubKey = TRUE]

\* Step, after a successful GetOp: execute and advance
\* AfterExecute leaving the VM running after a failed opcode
AfterExecute_NotDone(r, op) ==
  IF r.err # "OK"
  THEN [ret |-> FALSE, st |-> [r.st EXCEPT !.error = r.err]]
  ELSE [ret |-> TRUE,
        st |-> [r.st EXCEPT !.pc = op.pc, !.opIndex = @ + 1]]

\* AfterExecute leaving the program counter where it was
AfterExecute_KeepsPc(r, op) ==
  IF r.err # "OK"
  THEN [ret |-> FALSE,
        st |-> [r.st EXCEPT !.done = TRUE, !.error = r.err,
                            !.success = FALSE]]
  ELSE [ret |-> TRUE, st |-> [r.st EXCEPT !.opIndex = @ + 1]]

AfterExecute(r, op) ==
  IF r.err # "OK"
  THEN [ret |-> FALSE,
        st |-> [r.st EXCEPT !.done = TRUE, !.error = r.err,
                            !.success = FALSE]]
  ELSE [ret |-> TRUE,
        st |-> [r.st EXCEPT !.pc = op.pc, !.opIndex = @ + 1]]

StepOpcode(st, op, ctx) ==
  AfterExecute(ExecuteOpcode(st, op.opcode, op.data, ctx), op)

\* Step, the executed state stored as the current one
StoreState(saved, r) ==
  [ret |-> r.ret, vm |-> [saved EXCEPT !.currentState = r.st]]

\* Step saving the live state to the history even when the VM is done
Step_SavesWhenDone(vm) ==
  LET st == vm.currentState
      saved == [vm EXCEPT !.history = Append(vm.history, st)]
  IN IF st.done THEN [ret |-> FALSE, vm |-> saved]
     ELSE IF st.pc >= Len(st.script)
     THEN IF ~vm.inScriptPubKey /\ Len(vm.scriptPubKey) > 0
          THEN [ret |-> TRUE, vm |-> EnterScriptPubKey(saved)]
          ELSE [ret |-> FALSE,
                vm |-> [saved EXCEPT !.currentState = EndOfScript(st)]]
     ELSE LET op == GetOp(st.script, st.pc)
          IN IF ~op.ok
             THEN [ret |-> FALSE,
                   vm |-> [saved EXCEPT !.currentState.done = TRUE,
                                        !.currentState.error = "BAD_OPCODE"]]
             ELSE StoreState(saved, StepOpcode(st, op, vm.context))

Step(vm) ==
  LET st == vm.currentState
      saved == [vm EXCEPT !.history = Append(vm.history, st)]
  IN IF st.done THEN [ret |-> FALSE, vm |-> vm]
     ELSE IF st.pc >= Len(st.script)
     THEN IF ~vm.inScriptPubKey /\ Len(vm.scriptPubKey) > 0
          THEN [ret |-> TRUE, vm |-> EnterScriptPubKey(saved)]
          ELSE [ret |-> FALSE,
                vm |-> [saved EXCEPT !.currentState = EndOfScript(st)]]
     ELSE LET op == GetOp(st.script, st.pc)
          IN IF ~op.ok
             THEN [ret |-> FALSE,
                   vm |-> [saved EXCEPT !.currentState.done = TRUE,
                                        !.currentState.error = "BAD_OPCODE"]]
             ELSE StoreState(saved, StepOpcode(st, op, vm.context))

\* Rewind leaving the error of the undone Step in the restored state
Rewind_KeepsError(vm) ==
  IF vm.history = <<>> THEN [ret |-> FALSE, vm |-> vm]
  ELSE [ret |-> TRUE,
        vm |-> [vm EXCEPT
                  !.currentState = [Top(vm.history) EXCEPT
                                      !.error = vm.currentState.error],
                  !.history = Pop(vm.history)]]

Rewind(vm) ==
  IF vm.history = <<>> THEN [ret |-> FALSE, vm |-> vm]
  ELSE [ret |-> TRUE,
        vm |-> [vm EXCEPT !.currentState = Top(vm.history),
                          !.history = Pop(vm.history)]]

\* RxdVMAdapter::Run: step until Step returns false
RECURSIVE Run(_)
RunWhile(r) == IF r.ret THEN Run(r.vm) ELSE r.vm

Run(vm) == RunWhile(Step(vm))

IsDone(vm) == vm.currentState.done
IsAtStart(vm) == vm.history = <<>>
GetError(vm) == vm.currentState.error
GetErrorString(vm) == ScriptErrorString(vm.currentState.error)
GetHistoryDepth(vm) == Len(vm.history)

(***************************************************************************)
(* rxd::core::VerifyScript (native build).  The interpreter's error is     *)
(* carried over by searching its message for key words.                    *)
(***************************************************************************)
\* std::string::find(sub) != npos
Contains(s, sub) ==
  \E i \in 1..(Len(s) - Len(sub) + 1) : SubSeq(s, i, i + Len(sub) - 1) = sub

MapErrorMessage(err) ==
  IF Contains(err, <<"s","t","a","c","k">>) THEN "INVALID_STACK_OPERATION"
  ELSE IF Contains(err, <<"O","P","_","R","E","T","U","R","N">>) THEN "OP_RETURN"
  ELSE IF Contains(err, <<"V","E","R","I","F","Y">>) THEN "VERIFY"
  ELSE IF Contains(err, <<"d","i","v","i","s","i","o","n">>) \/ Contains(err, <<"z","e","r","o">>)
       THEN "DIV_BY_ZERO"
  ELSE "EVAL_FALSE"

\* the flag bits a caller may set, as the set of the bits that are set
SCRIPT_VERIFY_SIGPUSHONLY == "SIGPUSHONLY"
SCRIPT_VERIFY_CLEANSTACK == "CLEANSTACK"

\* VerifyScript, the input coins built from the transaction
BuildInputCoins(tx, nIn, amount, scriptPubKey) ==
  [i \in 1..Len(tx.vin) |->
     IF i - 1 = nIn THEN [value |-> amount, scriptPubKey |-> scriptPubKey]
     ELSE [value |-> 0, scriptPubKey |-> <<>>]]

\* CheckCleanStack accepting any non-empty stack
CheckCleanStack_NonEmpty(result, state, flags) ==
  IF result.success /\ SCRIPT_VERIFY_CLEANSTACK \in flags
     /\ Len(state.stack) < 1
  THEN [result EXCEPT !.success = FALSE, !.error = "CLEANSTACK",
                      !.errorMessage = ScriptErrorString("CLEANSTACK")]
  ELSE result

\* VerifyScript, the clean-stack check on the result
CheckCleanStack(result, state, flags) ==
  IF result.success /\ SCRIPT_VERIFY_CLEANSTACK \in flags
     /\ Len(state.stack) # 1
  THEN [result EXCEPT !.success = FALSE, !.error = "CLEANSTACK",
                      !.errorMessage = ScriptErrorString("CLEANSTACK")]
  ELSE result

\* VerifyScript with the final interpreter state it read the result from
ResultOf(vm, flags) ==
  LET state == vm.currentState
      message == IF state.success THEN <<>> ELSE GetErrorString(vm)
  IN [result |->
        CheckCleanStack(
          [success |-> state.success,
           error |-> IF state.success THEN "OK" ELSE MapErrorMessage(message),
           errorMessage |-> message,
           opCount |-> state.opCount, sigOps |-> 0,
           stackSize |-> Len(state.stack)],
          state, flags),
      state |-> state]

VerifyScriptFrame(scriptSig, scriptPubKey, tx, nIn, amount, flags) ==
  ResultOf(
    Run(NewVM(scriptSig, scriptPubKey,
              CreateContext(tx,
                            BuildInputCoins(tx, nIn, amount, scriptPubKey),
                            nIn))),
    flags)

VerifyScript(scriptSig, scriptPubKey, tx, nIn, amount, flags) ==
  VerifyScriptFrame(scriptSig, scriptPubKey, tx, nIn, amount, flags).result

\* VerifyTransaction, the result returned when the utxo count is wrong
UtxoCountMismatch ==
  [success |-> FALSE, error |-> "UNKNOWN", 
   sigOps |-> 0,
   errorMessage |-> <<"U","T","X","O"," ","c","o","u","n","t"," ","m","i","s","m","a","t","c","h">>, opCount |-> 0, stackSize |-> 0]

(***************************************************************************)
(* Bounds and input sets.                                                  *)
(***************************************************************************)
\* the cap a debugger configuration puts on the rewind history
history_depth == 4

MaxBytesLen == 4
MaxSigLen == 2
MaxPubLen == 2
MaxInputs == 2
MaxUtxos == 2

\* the bytes the generated scripts are made of; 1 is the opcode that
\* pushes the one byte that follows it
Alphabet == {OP_0, 1, OP_1, OP_IF, OP_ELSE, OP_ENDIF, OP_TOALTSTACK}

ScriptsUpTo(n) == UNION {[1..k -> Alphabet] : k \in 0..n}

\* the unlocking scripts: pushes, a conditional left open, the altstack
SigAlphabet == Alphabet \ {OP_ELSE, OP_ENDIF}
SigScriptsUpTo(n) == UNION {[1..k -> SigAlphabet] : k \in 0..n}

\* scripts of the test suite and of the documented scenarios
Scenarios ==
  { <<<<>>, <<OP_1, OP_IF, OP_1>>>>,
    <<<<OP_1 + 4>>, <<OP_1 + 2, OP_ADD, OP_1 + 7, OP_NUMEQUAL>>>>,
    <<<<>>, <<OP_1, OP_IF, OP_1, OP_IF, OP_1, OP_ENDIF,
              OP_ELSE, OP_0, OP_ENDIF>>>>,
    <<<<>>, <<OP_0, OP_IF, OP_0, OP_IF, OP_ELSE, 1, 7, OP_TOALTSTACK,
              OP_ENDIF, OP_ENDIF, OP_1>>>>,
    <<<<>>, <<OP_1 + 4, OP_0, OP_DIV>>>>,
    <<<<OP_1, OP_DUP>>, <<OP_EQUALVERIFY, OP_1 + 1, OP_1 + 1>>>>,
    <<<<OP_1, OP_RETURN>>, <<OP_1>>>>,
    <<<<OP_1, OP_NOP>>, <<OP_VERIFY>>>>,
    <<<<>>, <<OP_1, OP_1 + 1, OP_ADD>>>>,
    <<<<>>, <<OP_1, OP_1 + 1, OP_NUMEQUALVERIFY>>>>,
    <<<<>>, <<OP_1, OP_2MUL>>>>,
    <<<<>>, <<OP_1 + 9, OP_2DIV>>>>,
    <<<<>>, <<OP_1 + 4, OP_0, OP_MOD>>>>,
    <<<<1, 1, 1, 2>>, <<OP_CHECKSIG>>>>,
    <<<<1, 1, 1, 2>>, <<OP_CHECKSIGVERIFY, OP_1>>>>,
    <<<<>>, <<OP_0, OP_UTXOVALUE>>>>,
    <<<<>>, <<OP_1, OP_OUTPUTBYTECODE>>>>,
    <<<<>>, <<REF_SIZE>> \o [i \in 1..REF_SIZE |-> 7]
              \o <<OP_REQUIREINPUTREF>> \o [i \in 1..REF_SIZE |-> 7]
              \o <<OP_1>>>>,
    <<<<>>, <<3, 97, 98, 99, OP_DUP, OP_BLAKE3, OP_SWAP, OP_BLAKE3,
              OP_EQUAL>>>>,
    <<<<>>, <<OP_0, OP_K12, OP_SIZE, 1, 32, OP_NUMEQUAL>>>>,
    <<<<>>, <<9, 1, 0, 0, 0, 0, 0, 0, 0, 0, OP_1, OP_ADD>>>> }

\* scripts run by a debugger that was given no execution context
NoContextScenarios ==
  { <<<<>>, <<OP_INPUTINDEX>>>>,
    <<<<>>, <<OP_UTXOVALUE>>>>,
    <<<<>>, <<OP_0, OP_OUTPUTVALUE>>>>,
    <<<<>>, <<OP_0, OP_IF, OP_TXVERSION, OP_ENDIF, OP_1>>>>,
    <<<<>>, <<OP_ACTIVEBYTECODE>>>>,
    <<<<>>, <<OP_0, OP_OUTPOINTTXHASH>>>> }

ScriptPairs ==
  (SigScriptsUpTo(MaxSigLen) \X ScriptsUpTo(MaxPubLen)) \cup Scenarios
    \cup NoContextScenarios

\* the bytes the verified scripts are made of
VerifyAlphabet == {OP_0, OP_1, OP_IF, OP_DUP}

VerifyScriptsUpTo(n) == UNION {[1..k -> VerifyAlphabet] : k \in 0..n}

VerifyScriptPairs ==
  (VerifyScriptsUpTo(MaxSigLen) \X VerifyScriptsUpTo(MaxPubLen))
    \cup Scenarios

FlagSets == SUBSET {SCRIPT_VERIFY_SIGPUSHONLY, SCRIPT_VERIFY_CLEANSTACK}

\* scripts of the inputs and utxos of the verified transactions
TxSigScripts == {<<OP_1>>, <<OP_0>>, <<OP_1, OP_1>>}
TxPubScripts == {<<>>, <<OP_INPUTINDEX>>, <<OP_INPUTINDEX, OP_UTXOVALUE>>}
Amounts == {0, 1}
SeqsUpTo(S, n) == UNION {[1..k -> S] : k \in 0..n}

MakeTx(sigs) ==
  [nVersion |-> 2,
   vin |-> [i \in 1..Len(sigs) |->
              [scriptSig |-> sigs[i], nSequence |-> 0]],
   vout |-> <<>>, nLockTime |-> 0]

(***************************************************************************)
(* State.                                                                  *)
(***************************************************************************)
VARIABLES
  scriptSig,       \* RxdVMAdapter::Impl::scriptSig
  scriptPubKey,    \* RxdVMAdapter::Impl::scriptPubKey
  context,         \* RxdVMAdapter::Impl::context
  currentState,    \* RxdVMAdapter::Impl::currentState
  history,         \* RxdVMAdapter::Impl::history
  inScriptPubKey,  \* RxdVMAdapter::Impl::inScriptPubKey
  vArgs,           \* the arguments of the VerifyScript call
  vFrame,          \* its result and the interpreter state it was read from
  tPc,             \* VerifyTransaction: "idle", "loop" or "returned"
  tArgs,           \* VerifyTransaction: tx, utxos and flags
  tI,              \* VerifyTransaction: the loop index i
  tResults,        \* VerifyTransaction: results
  codec,           \* a call of the number codec or of CastToBool
  wire,            \* a call of CRxdTx::Serialize and of CRxdTx::Deserialize
  sigcheck,        \* a call of SignatureChecker::CheckSig
  refctx           \* an RxdExecutionContext and the answers to its queries

vmVars == <<scriptSig, scriptPubKey, context, currentState, history,
            inScriptPubKey>>
verifyVars == <<vArgs, vFrame, tPc, tArgs, tI, tResults>>
pureVars == <<codec, wire, sigcheck, refctx>>
vars == <<scriptSig, scriptPubKey, context, currentState, history,
          inScriptPubKey, vArgs, vFrame, tPc, tArgs, tI, tResults, codec,
          wire, sigcheck, refctx>>

\* the debugger's VM as a record, and its assignment
VM ==
  [scriptSig |-> scriptSig, scriptPubKey |-> scriptPubKey,
   context |-> context, currentState |-> currentState,
   history |-> history, inScriptPubKey |-> inScriptPubKey]

SetVM(vm) ==
  /\ scriptSig' = vm.scriptSig
  /\ scriptPubKey' = vm.scriptPubKey
  /\ context' = vm.context
  /\ currentState' = vm.currentState
  /\ history' = vm.history
  /\ inScriptPubKey' = vm.inScriptPubKey

NoCall == [called |-> FALSE]
Returned(f) == [called |-> TRUE, result |-> f.result, state |-> f.state]
NoTxArgs == [tx |-> EmptyTx, utxos |-> <<>>, flags |-> {}]

\* no codec call: pc says which of the fields are set
CodecIdle ==
  [pc |-> "idle", num |-> Zero64, bytes |-> <<>>, dec |-> Zero64,
   bool |-> FALSE]

\* no transaction on the wire: pc says which of the fields are set
WireIdle ==
  [pc |-> "idle", tx |-> WireTx(1, <<>>, <<>>, <<0, 0>>), data |-> <<>>,
   out |-> Thrown]

\* no CheckSig call: pc says whether result is set
RefCtxIdle ==
  [pc |-> "idle", impl |-> NewImpl(NoTx, <<>>, 0), index |-> 0, ref |-> <<>>,
   codeUtxo |-> <<>>, stateUtxo |-> <<>>, codeOutput |-> <<>>,
   stateOutput |-> <<>>, sumUtxos |-> 0, sumOutputs |-> 0,
   countUtxos |-> 0, countOutputs |-> 0]

SigCheckIdle ==
  [pc |-> "idle", sig |-> <<>>, pubkey |-> <<>>, ecdsa |-> FALSE,
   result |-> FALSE]

VerifyIdle ==
  /\ vArgs = NoCall
  /\ vFrame = NoCall
  /\ tPc = "idle"
  /\ tArgs = NoTxArgs
  /\ tI = 0
  /\ tResults = <<>>

(***************************************************************************)
(* The debugger: a VM is constructed for a pair of scripts and is then     *)
(* driven by Step, Rewind and Reset.                                       *)
(***************************************************************************)
Init ==
  /\ \E p \in ScriptPairs, ctx \in {CreateMinimalContext, NoContext} :
        LET vm == NewVM(p[1], p[2], ctx)
        IN /\ ctx = NoContext => p \in NoContextScenarios
           /\ scriptSig = vm.scriptSig
           /\ scriptPubKey = vm.scriptPubKey
           /\ context = vm.context
           /\ currentState = vm.currentState
           /\ history = vm.history
           /\ inScriptPubKey = vm.inScriptPubKey
  /\ VerifyIdle
  /\ codec = CodecIdle
  /\ wire = WireIdle
  /\ sigcheck = SigCheckIdle
  /\ refctx = RefCtxIdle

StepAction ==
  /\ SetVM(Step(VM).vm)
  /\ UNCHANGED verifyVars
  /\ UNCHANGED pureVars

RewindAction ==
  /\ SetVM(Rewind(VM).vm)
  /\ UNCHANGED verifyVars
  /\ UNCHANGED pureVars

ResetAction ==
  /\ SetVM(Reset(VM))
  /\ UNCHANGED verifyVars
  /\ UNCHANGED pureVars

Next == StepAction \/ RewindAction \/ ResetAction

Spec == Init /\ [][Next]_vars

(***************************************************************************)
(* The verifier: either VerifyScript is called on a one-input transaction, *)
(* or VerifyTransaction is called and loops over the inputs of a           *)
(* transaction.  The arguments of the call are fixed by the caller.        *)
(***************************************************************************)
InitVerify ==
  /\ LET vm == NewVM(<<>>, <<>>, CreateMinimalContext)
     IN /\ scriptSig = vm.scriptSig
        /\ scriptPubKey = vm.scriptPubKey
        /\ context = vm.context
        /\ currentState = vm.currentState
        /\ history = vm.history
        /\ inScriptPubKey = vm.inScriptPubKey
  /\ \/ /\ \E p \in VerifyScriptPairs, flags \in FlagSets,
              amount \in Amounts :
              vArgs = [called |-> TRUE, scriptSig |-> p[1],
                       scriptPubKey |-> p[2], tx |-> MakeTx(<<p[1]>>),
                       nIn |-> 0, amount |-> amount, flags |-> flags]
        /\ tArgs = NoTxArgs
     \/ /\ vArgs = NoCall
        /\ \E sigs \in SeqsUpTo(TxSigScripts, MaxInputs),
              utxos \in SeqsUpTo(TxPubScripts \X Amounts, MaxUtxos),
              flags \in FlagSets :
              tArgs = [tx |-> MakeTx(sigs), utxos |-> utxos, flags |-> flags]
  /\ vFrame = NoCall
  /\ tPc = "idle"
  /\ tI = 0
  /\ tResults = <<>>
  /\ codec = CodecIdle
  /\ wire = WireIdle
  /\ sigcheck = SigCheckIdle
  /\ refctx = RefCtxIdle

VerifyScriptCall ==
  /\ vArgs.called /\ ~vFrame.called
  /\ vFrame' = Returned(VerifyScriptFrame(vArgs.scriptSig,
                                          vArgs.scriptPubKey, vArgs.tx,
                                          vArgs.nIn, vArgs.amount,
                                          vArgs.flags))
  /\ UNCHANGED <<vArgs, tPc, tArgs, tI, tResults>>
  /\ UNCHANGED vmVars
  /\ UNCHANGED pureVars

VerifyTransactionStart ==
  /\ ~vArgs.called /\ tPc = "idle"
  /\ IF Len(tArgs.tx.vin) # Len(tArgs.utxos)
     THEN tPc' = "returned" /\ tResults' = <<UtxoCountMismatch>>
     ELSE tPc' = "loop" /\ tResults' = <<>>
  /\ tI' = 0
  /\ UNCHANGED <<vArgs, vFrame, tArgs>>
  /\ UNCHANGED vmVars
  /\ UNCHANGED pureVars

\* VerifyTransactionLoop leaving the loop at the first failed input
VerifyTransactionLoop_ShortCircuit ==
  /\ tPc = "loop"
  /\ IF tI < Len(tArgs.tx.vin)
     THEN LET r == VerifyScript(tArgs.tx.vin[tI + 1].scriptSig,
                                tArgs.utxos[tI + 1][1], tArgs.tx, tI,
                                tArgs.utxos[tI + 1][2], tArgs.flags)
          IN /\ tResults' = Append(tResults, r)
             /\ tI' = tI + 1
             /\ tPc' = IF r.success THEN "loop" ELSE "returned"
     ELSE /\ tPc' = "returned"
          /\ UNCHANGED <<tI, tResults>>
  /\ UNCHANGED <<vArgs, vFrame, tArgs>>
  /\ UNCHANGED vmVars
  /\ UNCHANGED pureVars

VerifyTransactionLoop ==
  /\ tPc = "loop"
  /\ IF tI < Len(tArgs.tx.vin)
     THEN /\ tResults' = Append(tResults,
               VerifyScript(tArgs.tx.vin[tI + 1].scriptSig,
                            tArgs.utxos[tI + 1][1], tArgs.tx, tI,
                            tArgs.utxos[tI + 1][2], tArgs.flags))
          /\ tI' = tI + 1
          /\ tPc' = "loop"
     ELSE /\ tPc' = "returned"
          /\ UNCHANGED <<tI, tResults>>
  /\ UNCHANGED <<vArgs, vFrame, tArgs>>
  /\ UNCHANGED vmVars
  /\ UNCHANGED pureVars

NextVerify ==
  VerifyScriptCall \/ VerifyTransactionStart \/ VerifyTransactionLoop

SpecVerify == InitVerify /\ [][NextVerify]_vars

(***************************************************************************)
(* The codec: ScriptNumSerialize is called on an int64 and                 *)
(* ScriptNumDeserialize on its result, and CastToBool is called on a byte  *)
(* string or on the encoding of a number.                                  *)
(***************************************************************************)
\* the bytes the numbers and the byte strings are made of
CodecBytes == {0, 127, 128, 255}
BoolBytes == {0, 1, 128}

\* the int64 values whose magnitude bytes are CodecBytes
Int64Inputs ==
  {x \in [neg : BOOLEAN,
          mag : UNION {[1..k -> CodecBytes] : k \in 0..INT64_BYTES}] :
     IsInt64(x)}

ByteStrings == UNION {[1..k -> BoolBytes] : k \in 0..MaxBytesLen}

InitCodec ==
  /\ LET vm == NewVM(<<>>, <<>>, CreateMinimalContext)
     IN /\ scriptSig = vm.scriptSig
        /\ scriptPubKey = vm.scriptPubKey
        /\ context = vm.context
        /\ currentState = vm.currentState
        /\ history = vm.history
        /\ inScriptPubKey = vm.inScriptPubKey
  /\ VerifyIdle
  /\ \/ \E x \in Int64Inputs : codec = [CodecIdle EXCEPT !.pc = "num", !.num = x]
     \/ \E b \in ByteStrings :
           codec = [CodecIdle EXCEPT !.pc = "bytes", !.bytes = b]
  /\ wire = WireIdle
  /\ sigcheck = SigCheckIdle
  /\ refctx = RefCtxIdle

ScriptNumSerializeCall ==
  /\ codec.pc = "num"
  /\ codec' = [codec EXCEPT !.pc = "encoded",
                            !.bytes = ScriptNumSerialize64(codec.num)]
  /\ UNCHANGED <<vmVars, verifyVars, wire, sigcheck, refctx>>

ScriptNumDeserializeCall ==
  /\ codec.pc = "encoded"
  /\ codec' = [codec EXCEPT !.pc = "decoded",
                            !.dec = ScriptNumDeserialize64(codec.bytes)]
  /\ UNCHANGED <<vmVars, verifyVars, wire, sigcheck, refctx>>

CastToBoolCall ==
  /\ codec.pc \in {"bytes", "encoded"}
  /\ codec' = [codec EXCEPT
                 !.pc = IF codec.pc = "bytes" THEN "bool" ELSE "encoded_bool",
                 !.bool = CastToBool(codec.bytes)]
  /\ UNCHANGED <<vmVars, verifyVars, wire, sigcheck, refctx>>

NextCodec ==
  ScriptNumSerializeCall \/ ScriptNumDeserializeCall \/ CastToBoolCall

SpecCodec == InitCodec /\ [][NextCodec]_vars

(***************************************************************************)
(* Serialize and Deserialize, applied to well-formed transactions.         *)
(***************************************************************************)
MaxTxIns == 2
MaxTxOuts == 2

Bytes(k, b) == [i \in 1..k |-> b]

\* lengths on both sides of the one-byte varint
WireScripts == {<<>>, <<OP_1, 255>>, Bytes(252, OP_DUP), Bytes(253, 253)}

WireTxIn(txid, n, script, seq) ==
  [prevout |-> [txid |-> txid, n |-> n], scriptSig |-> script,
   nSequence |-> seq]

WireTxIns ==
  {WireTxIn(Bytes(32, 0), <<65535, 65535>>, <<>>, <<65535, 65535>>),
   WireTxIn([i \in 1..32 |-> 224 + i], <<1, 0>>, Bytes(253, 253),
            <<65534, 65535>>),
   WireTxIn(Bytes(32, 255), <<0, 32768>>, <<OP_1, 255>>, <<0, 0>>)}

\* nValue 0, 5000000000, -1 and the least int64
WireTxOuts ==
  {[nValue |-> <<0, 0, 0, 0>>, scriptPubKey |-> <<>>],
   [nValue |-> <<61952, 10760, 1, 0>>, scriptPubKey |-> Bytes(252, OP_DUP)],
   [nValue |-> <<65535, 65535, 65535, 65535>>, scriptPubKey |-> <<OP_1, 255>>],
   [nValue |-> <<0, 0, 0, 32768>>, scriptPubKey |-> Bytes(253, 253)]}

WireVersions == {1, 2, -1, 2147483647, -2147483647 - 1}
WireLockTimes == {<<0, 0>>, <<65535, 65535>>, <<59999, 7629>>}

\* counts and lengths past the one-byte and the three-byte varint
ManyInputsTx ==
  WireTx(2, [i \in 1..253 |->
               WireTxIn(Bytes(32, i), <<i, 0>>, <<>>, <<65535, 65535>>)],
         <<>>, <<0, 0>>)
ManyOutputsTx ==
  WireTx(2, <<>>, [i \in 1..300 |->
                     [nValue |-> <<i, 0, 0, 0>>, scriptPubKey |-> <<i % 256>>]],
         <<0, 0>>)
LongScriptTx ==
  WireTx(1, <<>>, <<[nValue |-> <<1, 0, 0, 0>>,
                     scriptPubKey |-> Bytes(65536, OP_NOP)]>>, <<1, 0>>)

WireTxs ==
  {WireTx(v, vin, vout, lt) :
     v \in WireVersions, vin \in SeqsUpTo(WireTxIns, MaxTxIns),
     vout \in SeqsUpTo(WireTxOuts, MaxTxOuts), lt \in WireLockTimes}
    \cup {ManyInputsTx, ManyOutputsTx, LongScriptTx}

InitTx ==
  /\ LET vm == NewVM(<<>>, <<>>, CreateMinimalContext)
     IN /\ scriptSig = vm.scriptSig
        /\ scriptPubKey = vm.scriptPubKey
        /\ context = vm.context
        /\ currentState = vm.currentState
        /\ history = vm.history
        /\ inScriptPubKey = vm.inScriptPubKey
  /\ VerifyIdle
  /\ codec = CodecIdle
  /\ sigcheck = SigCheckIdle
  /\ refctx = RefCtxIdle
  /\ \E tx \in WireTxs : wire = [WireIdle EXCEPT !.pc = "tx", !.tx = tx]

SerializeCall ==
  /\ wire.pc = "tx"
  /\ wire' = [wire EXCEPT !.pc = "serialized", !.data = Serialize(wire.tx)]
  /\ UNCHANGED <<vmVars, verifyVars, codec, sigcheck, refctx>>

DeserializeCall ==
  /\ wire.pc = "serialized"
  /\ wire' = [wire EXCEPT !.pc = "deserialized",
                          !.out = Deserialize(wire.data)]
  /\ UNCHANGED <<vmVars, verifyVars, codec, sigcheck, refctx>>

NextTx == SerializeCall \/ DeserializeCall

SpecTx == InitTx /\ [][NextTx]_vars

(***************************************************************************)
(* CheckSig, applied to signatures with every kind of sighash byte.        *)
(***************************************************************************)
\* a DER prefix byte and the sighash bytes: ALL, ALL|FORKID, FORKID alone,
\* ALL|ANYONECANPAY with and without FORKID, and none
SigBytes == {48, 1, 65, 64, 129, 193, 0}

Signatures == UNION {[1..k -> SigBytes] : k \in 0..MaxSigLen}

\* a compressed key, a key with a wrong prefix, an uncompressed key, no key
PubKeys ==
  {[i \in 1..33 |-> IF i = 1 THEN 2 ELSE 121],
   [i \in 1..33 |-> IF i = 1 THEN 5 ELSE 121],
   [i \in 1..65 |-> IF i = 1 THEN 4 ELSE 121],
   <<>>}

InitSig ==
  /\ LET vm == NewVM(<<>>, <<>>, CreateMinimalContext)
     IN /\ scriptSig = vm.scriptSig
        /\ scriptPubKey = vm.scriptPubKey
        /\ context = vm.context
        /\ currentState = vm.currentState
        /\ history = vm.history
        /\ inScriptPubKey = vm.inScriptPubKey
  /\ VerifyIdle
  /\ codec = CodecIdle
  /\ wire = WireIdle
  /\ refctx = RefCtxIdle
  /\ \E sig \in Signatures, pubkey \in PubKeys, ecdsa \in BOOLEAN :
        sigcheck = [SigCheckIdle EXCEPT !.pc = "args", !.sig = sig,
                                        !.pubkey = pubkey, !.ecdsa = ecdsa]

CheckSigCall ==
  /\ sigcheck.pc = "args"
  /\ sigcheck' = [sigcheck EXCEPT
                    !.pc = "checked",
                    !.result = CheckSig(sigcheck.sig, sigcheck.pubkey,
                                        sigcheck.ecdsa)]
  /\ UNCHANGED <<vmVars, verifyVars, codec, wire, refctx>>

NextSig == CheckSigCall

SpecSig == InitSig /\ [][NextSig]_vars

(***************************************************************************)
(* OP_CAT and OP_SPLIT: the debugger stepping through                      *)
(* [push a, push b, OP_CAT, push index, OP_SPLIT].                         *)
(***************************************************************************)
MaxSpliceLen == 3

\* the bytes that push v: a direct push, OP_PUSHDATA1 or OP_PUSHDATA2
PushOf(v) ==
  IF Len(v) < OP_PUSHDATA1 THEN <<Len(v)>> \o v
  ELSE IF Len(v) <= 255 THEN <<OP_PUSHDATA1, Len(v)>> \o v
  ELSE <<OP_PUSHDATA2, Len(v) % 256, Len(v) \div 256>> \o v

SpliceScript(a, b, index) ==
  PushOf(a) \o PushOf(b) \o <<OP_CAT>> \o PushOf(ScriptNumSerialize(index))
    \o <<OP_SPLIT>>

SpliceBytes == {0, 129}
SpliceStrings == UNION {[1..k -> SpliceBytes] : k \in 0..MaxSpliceLen}

\* short strings with every index around 0..len; "hello" and "world";
\* strings that reach and that pass MAX_SCRIPT_ELEMENT_SIZE together
SpliceInputs ==
  {<<a, b, i>> : a \in SpliceStrings, b \in SpliceStrings,
                 i \in (-1)..(2 * MaxSpliceLen + 1)}
    \cup {<<<<104, 101, 108, 108, 111>>, <<119, 111, 114, 108, 100>>, i>> :
            i \in {5, 10, 11}}
    \cup {<<[k \in 1..260 |-> 1], [k \in 1..260 |-> 2], i>> :
            i \in {260, 520, 521}}
    \cup {<<[k \in 1..261 |-> 1], [k \in 1..260 |-> 2], 261>>}

InitSplice ==
  /\ \E in \in SpliceInputs :
        LET vm == NewVM(<<>>, SpliceScript(in[1], in[2], in[3]),
                        CreateMinimalContext)
        IN /\ scriptSig = vm.scriptSig
           /\ scriptPubKey = vm.scriptPubKey
           /\ context = vm.context
           /\ currentState = vm.currentState
           /\ history = vm.history
           /\ inScriptPubKey = vm.inScriptPubKey
  /\ VerifyIdle
  /\ codec = CodecIdle
  /\ wire = WireIdle
  /\ sigcheck = SigCheckIdle
  /\ refctx = RefCtxIdle

SpecSplice == InitSplice /\ [][StepAction]_vars

(***************************************************************************)
(* ExecuteOpcode at the stack limit.  MAX_STACK_SIZE elements cannot be    *)
(* enumerated, so the opcodes are applied with the limit DepthLimit in its *)
(* place; the code compares the depth with the limit and nothing else.     *)
(***************************************************************************)
DepthLimit == 3
MaxDepthOps == 5

\* pushes of each kind, and opcodes that grow, move and shrink the stacks
DepthOps == {OP_0, 1, OP_1, OP_1NEGATE, OP_DUP, OP_TOALTSTACK, OP_DROP}

InitDepth ==
  /\ LET vm == NewVM(<<>>, <<>>, CreateMinimalContext)
     IN /\ scriptSig = vm.scriptSig
        /\ scriptPubKey = vm.scriptPubKey
        /\ context = vm.context
        /\ currentState = vm.currentState
        /\ history = vm.history
        /\ inScriptPubKey = vm.inScriptPubKey
  /\ VerifyIdle
  /\ codec = CodecIdle
  /\ wire = WireIdle
  /\ sigcheck = SigCheckIdle
  /\ refctx = RefCtxIdle

ExecuteOpcodeCall ==
  /\ ~currentState.done
  /\ currentState.opIndex < MaxDepthOps
  /\ Len(currentState.stack) + Len(currentState.altstack) <= DepthLimit
  /\ \E opcode \in DepthOps :
        currentState' =
          AfterExecute(
            ExecuteOpcodeWithin(currentState, opcode,
                                IF opcode = 1 THEN <<7>> ELSE <<>>,
                                context, DepthLimit),
            [pc |-> currentState.pc]).st
  /\ UNCHANGED <<scriptSig, scriptPubKey, context, history, inScriptPubKey>>
  /\ UNCHANGED verifyVars
  /\ UNCHANGED pureVars

NextDepth == ExecuteOpcodeCall

SpecDepth == InitDepth /\ [][NextDepth]_vars

(***************************************************************************)
(* Specification SpecContext: an execution context is constructed from a   *)
(* transaction and the coins it spends, then asked for the state and code  *)
(* script of an input coin and of an output, or for the aggregates of a    *)
(* reference.                                                              *)
(***************************************************************************)
MaxCtxItems == 2

RefOf(b) == [i \in 1..REF_SIZE |-> b]
WithRef(opcode, b) == <<opcode>> \o RefOf(b)

\* the references asked for: two that scripts carry and one that none does
CtxRefs == {RefOf(1), RefOf(OP_STATESEPARATOR), RefOf(3)}

CtxScripts ==
  { <<>>,
    WithRef(OP_PUSHINPUTREF, 1),
    WithRef(OP_PUSHINPUTREF, 1) \o <<OP_STATESEPARATOR>>
      \o WithRef(OP_PUSHINPUTREF, OP_STATESEPARATOR),
    WithRef(OP_REQUIREINPUTREF, 1)
      \o WithRef(OP_PUSHINPUTREFSINGLETON, OP_STATESEPARATOR),
    <<OP_1, OP_STATESEPARATOR, OP_STATESEPARATOR, OP_1>>,
    <<1, OP_STATESEPARATOR>>
      \o WithRef(OP_DISALLOWPUSHINPUTREFSIBLING, OP_STATESEPARATOR)
      \o <<OP_STATESEPARATOR>>,
    <<OP_1, 2, OP_STATESEPARATOR>> }

CtxValues == {3, 5}

\* the coins (value, scriptPubKey) and the outputs (nValue, scriptPubKey)
CtxItemLists ==
  UNION {[1..k -> CtxValues \X CtxScripts] : k \in 0..MaxCtxItems}

CtxFixedLists ==
  { <<>>,
    << <<3, WithRef(OP_PUSHINPUTREF, 1)>> >>,
    << <<5, WithRef(OP_PUSHINPUTREF, OP_STATESEPARATOR)>>,
       <<3, <<OP_STATESEPARATOR, OP_1>>>> >> }

CtxCoins(items) ==
  [i \in 1..Len(items) |-> [value |-> items[i][1], scriptPubKey |-> items[i][2]]]

CtxTx(items) ==
  [nVersion |-> 2, vin |-> <<>>,
   vout |-> [i \in 1..Len(items) |->
               [nValue |-> items[i][1], scriptPubKey |-> items[i][2]]],
   nLockTime |-> 0]

InitContext ==
  /\ LET vm == NewVM(<<>>, <<>>, CreateMinimalContext)
     IN /\ scriptSig = vm.scriptSig
        /\ scriptPubKey = vm.scriptPubKey
        /\ context = vm.context
        /\ currentState = vm.currentState
        /\ history = vm.history
        /\ inScriptPubKey = vm.inScriptPubKey
  /\ VerifyIdle
  /\ codec = CodecIdle
  /\ wire = WireIdle
  /\ sigcheck = SigCheckIdle
  /\ \E pair \in (CtxItemLists \X CtxFixedLists)
                  \cup (CtxFixedLists \X CtxItemLists),
        hasTx \in BOOLEAN :
        /\ ~hasTx => pair[2] = <<>>
        /\ refctx = [RefCtxIdle EXCEPT
                       !.pc = "built",
                       !.impl = NewImpl(IF hasTx THEN CtxTx(pair[2]) ELSE NoTx,
                                        CtxCoins(pair[1]), 0)]

\* the four script views of the input coin and of the output at index
ScriptViewsCall ==
  /\ refctx.pc = "built"
  /\ \E index \in 0..MaxCtxItems :
        refctx' = [refctx EXCEPT
          !.pc = "views",
          !.index = index,
          !.codeUtxo = GetCodeScriptBytecodeUtxo(refctx.impl, index),
          !.stateUtxo = GetStateScriptBytecodeUtxo(refctx.impl, index),
          !.codeOutput = GetCodeScriptBytecodeOutput(refctx.impl, index),
          !.stateOutput = GetStateScriptBytecodeOutput(refctx.impl, index)]
  /\ UNCHANGED <<vmVars, verifyVars, codec, wire, sigcheck>>

\* the four aggregates of a reference
RefAggregatesCall ==
  /\ refctx.pc = "built"
  /\ \E ref \in CtxRefs :
        refctx' = [refctx EXCEPT
          !.pc = "aggregates",
          !.ref = ref,
          !.sumUtxos = GetRefValueSumUtxos(refctx.impl, ref),
          !.sumOutputs = GetRefValueSumOutputs(refctx.impl, ref),
          !.countUtxos = GetRefOutputCountUtxos(refctx.impl, ref),
          !.countOutputs = GetRefOutputCountOutputs(refctx.impl, ref)]
  /\ UNCHANGED <<vmVars, verifyVars, codec, wire, sigcheck>>

NextContext == ScriptViewsCall \/ RefAggregatesCall

SpecContext == InitContext /\ [][NextContext]_vars

(***************************************************************************)
(* Specification SpecIndex: the debugger steps through a locking script    *)
(* that pushes the input count and an index and asks for the value, the    *)
(* script or the sequence number of the input at that index, in a context  *)
(* built as VerifyScript builds it: one coin for every input.              *)
(***************************************************************************)
MaxIndexInputs == 2

\* stack elements used as index: 0, 1, 2, 3, -1, 2^31, 2^32 - 1, 2^32,
\* 2^32 + 1 and -2^32
IndexElements ==
  { <<>>, <<1>>, <<2>>, <<3>>, <<129>>, <<0, 0, 0, 128, 0>>,
    <<255, 255, 255, 255, 0>>, <<0, 0, 0, 0, 1>>, <<1, 0, 0, 0, 1>>,
    <<0, 0, 0, 0, 129>> }

InputIndexOps == {OP_UTXOVALUE, OP_UTXOBYTECODE, OP_INPUTSEQUENCENUMBER}

IndexScript(elem, opcode) == <<OP_TXINPUTCOUNT>> \o PushOf(elem) \o <<opcode>>

InitIndex ==
  /\ \E n \in 0..MaxIndexInputs, elem \in IndexElements,
        opcode \in InputIndexOps :
        LET tx == MakeTx([i \in 1..n |-> <<>>])
            vm == NewVM(<<>>, IndexScript(elem, opcode),
                        CreateContext(tx,
                          BuildInputCoins(tx, 0, 5, IndexScript(elem, opcode)),
                          0))
        IN /\ scriptSig = vm.scriptSig
           /\ scriptPubKey = vm.scriptPubKey
           /\ context = vm.context
           /\ currentState = vm.currentState
           /\ history = vm.history
           /\ inScriptPubKey = vm.inScriptPubKey
  /\ VerifyIdle
  /\ codec = CodecIdle
  /\ wire = WireIdle
  /\ sigcheck = SigCheckIdle
  /\ refctx = RefCtxIdle

SpecIndex == InitIndex /\ [][StepAction]_vars

(***************************************************************************)
(* Properties of the interpreter (specification Spec).                     *)
(***************************************************************************)
\* the VM as it is after construction or Reset for the same scripts
InitialVM == NewVM(scriptSig, scriptPubKey, context)

\* the transition is a Step that was not refused: it saved the live state
IsStepTransition == history' = Append(history, currentState)

\* the next Step decodes an opcode
AtOpcode ==
  /\ ~currentState.done
  /\ currentState.pc < Len(currentState.script)
  /\ GetOp(currentState.script, currentState.pc).ok

NextOp == GetOp(currentState.script, currentState.pc)

\* the next Step decodes an opcode other than IF..ENDIF
AtPlainOpcode == AtOpcode /\ ~IsConditionalOp(NextOp.opcode)

AllTrue(vfExec) == \A i \in 1..Len(vfExec) : vfExec[i]

\* C1: rewind symmetry.  Whenever every Step has been rewound (the history
\* is empty again) the live state, script phase included, is the state
\* that held after construction or Reset.
C1_RewindSymmetry ==
  history = <<>> =>
    /\ currentState = InitialVM.currentState
    /\ inScriptPubKey = InitialVM.inScriptPubKey

\* what executing the opcode does to a state, whatever the condition stack
UnconditionalEffect(st, op) ==
  LET r == ExecuteOpcode([st EXCEPT !.vfExec = <<>>], op.opcode, op.data,
                         context)
  IN [err |-> r.err, stack |-> r.st.stack, altstack |-> r.st.altstack]

\* C2: a Step on an opcode other than IF..ENDIF executes the opcode if and
\* only if every entry of the condition stack is true; if any entry is
\* false the opcode is skipped and only pc and opIndex move.
C2_ExecutesIffAllTrue ==
  [][(AtPlainOpcode /\ IsStepTransition) =>
       IF AllTrue(currentState.vfExec)
       THEN LET e == UnconditionalEffect(currentState, NextOp)
            IN /\ currentState'.stack = e.stack
               /\ currentState'.altstack = e.altstack
               /\ currentState'.error = e.err
       ELSE currentState' = [currentState EXCEPT !.pc = NextOp.pc,
                                                 !.opIndex = @ + 1]]_vars

\* C3: a Step that skips an opcode (some entry of the condition stack is
\* false and the opcode is not one of IF..ENDIF) leaves the stack, the
\* altstack and the opcode count as they were and moves pc past the opcode
\* and its operand.
C3_SkippedOpcodeFrame ==
  [][(AtPlainOpcode /\ IsStepTransition /\ ~AllTrue(currentState.vfExec)) =>
       /\ currentState'.stack = currentState.stack
       /\ currentState'.altstack = currentState.altstack
       /\ currentState'.opCount = currentState.opCount
       /\ currentState'.pc = NextOp.pc]_vars

\* C4: when a Step moves from the unlocking to the locking script, the
\* locking script starts at pc 0 with the main stack of the unlocking script
\* and with an empty altstack and an empty condition stack.
C4_HandOver ==
  [][(~inScriptPubKey /\ inScriptPubKey') =>
       /\ currentState'.script = scriptPubKey
       /\ currentState'.pc = 0
       /\ currentState'.stack = currentState.stack
       /\ currentState'.altstack = <<>>
       /\ currentState'.vfExec = <<>>]_vars

\* C5: a Step that finds the current script exhausted, the unlocking script
\* as well as the locking script, while the condition stack is not empty
\* ends the run with UNBALANCED_CONDITIONAL.
C5_UnbalancedAtEnd ==
  [][(/\ ~currentState.done
      /\ currentState.pc >= Len(currentState.script)
      /\ currentState.vfExec # <<>>
      /\ IsStepTransition) =>
       /\ currentState'.done
       /\ ~currentState'.success
       /\ currentState'.error = "UNBALANCED_CONDITIONAL"]_vars

\* the run ended by reaching the end of the script
EndedAtEndOfScript ==
  currentState.done /\ currentState.pc >= Len(currentState.script)

\* C6: a run that ended at the end of the script with an empty condition
\* stack succeeded if and only if the main stack is not empty and its top
\* coerces to true; otherwise its error is EVAL_FALSE.
C6_FinalVerdict ==
  (EndedAtEndOfScript /\ currentState.vfExec = <<>>) =>
    /\ currentState.success <=>
         (currentState.stack # <<>> /\ CastToBool(Top(currentState.stack)))
    /\ currentState.error = IF currentState.success THEN "OK"
                            ELSE "EVAL_FALSE"

\* C6 witness: a run that ended at the end of the locking script with a
\* false element on top of a non-empty stack, after the unlocking script
C6_Witness ==
  /\ EndedAtEndOfScript /\ currentState.vfExec = <<>>
  /\ scriptSig # <<>> /\ currentState.script = scriptPubKey
  /\ Len(currentState.stack) = 2
  /\ ~currentState.success /\ currentState.error = "EVAL_FALSE"

(***************************************************************************)
(* Properties of the stepping interface (specification Spec).              *)
(***************************************************************************)
\* the next Step meets a byte sequence GetOp cannot decode
AtMalformedOp ==
  /\ ~currentState.done
  /\ currentState.pc < Len(currentState.script)
  /\ ~GetOp(currentState.script, currentState.pc).ok

\* the next Step dispatches an opcode ExecuteOpcode has no case for
AtUnsupportedOp ==
  /\ AtOpcode
  /\ ~IsImplementedOp(NextOp.opcode)
  /\ (ExecFlag(currentState.vfExec) \/ IsConditionalOp(NextOp.opcode))

C12_StepReturnsNotDone ==
  /\ [](currentState.done =>
          (~Step(VM).ret /\ Step(VM).vm = VM))
  /\ [][IsStepTransition => (~Step(VM).ret <=> currentState'.done)]_vars

\* C12 witness: Steps returned true and then a Step returned false, leaving
\* the VM done
C12_Witness ==
  /\ currentState.done
  /\ Len(history) >= 3
  /\ ~Step(VM).ret

\* the transition is a Rewind that was not refused
IsRewindTransition == history # <<>> /\ history' = Pop(history)

\* C13: Rewind returns false exactly when there is no history and then
\* changes nothing; otherwise it returns true, takes one entry off the
\* history and restores the state that held before the Step it undoes, so
\* that repeating that Step leads back to the state the Rewind left.
C13_RewindRestores ==
  /\ [](Rewind(VM).ret <=> ~IsAtStart(VM))
  /\ [](IsAtStart(VM) => Rewind(VM).vm = VM)
  /\ [][IsRewindTransition =>
          /\ currentState' = Top(history)
          /\ GetHistoryDepth(VM') = GetHistoryDepth(VM) - 1
          /\ Step(VM').vm = VM]_vars

\* C14: Reset leads from every reachable state to the state of a freshly
\* constructed VM for the same scripts: not done, at start, empty stacks
\* and condition stack, pc 0, error OK and the starting script phase.
C14_ResetIsFresh ==
  /\ Reset(VM) = InitialVM
  /\ ~IsDone(Reset(VM))
  /\ IsAtStart(Reset(VM))
  /\ Reset(VM).currentState.stack = <<>>
  /\ Reset(VM).currentState.altstack = <<>>
  /\ Reset(VM).currentState.vfExec = <<>>
  /\ Reset(VM).currentState.pc = 0
  /\ GetError(Reset(VM)) = "OK"
  /\ Reset(VM).inScriptPubKey =
       (scriptSig = <<>> /\ scriptPubKey # <<>>)

\* C14 witness: a failed run in the locking script, with history, stack and
\* an open conditional, from which Reset leads to the fresh state
C14_Witness ==
  /\ currentState.done /\ currentState.error # "OK"
  /\ history # <<>>
  /\ currentState.stack # <<>> /\ currentState.vfExec # <<>>
  /\ inScriptPubKey /\ scriptSig # <<>>
  /\ Reset(VM) = InitialVM

\* C15: the history depth never exceeds the configured cap.
C15_HistoryBounded == GetHistoryDepth(VM) <= history_depth

\* the next Step executes the opcode opc
AtExecutedOp(opc) ==
  /\ AtOpcode
  /\ NextOp.opcode = opc
  /\ ExecFlag(currentState.vfExec)

\* C16: an executed OP_DIV whose divisor is zero fails the script with
\* DIV_BY_ZERO, and an executed OP_MOD whose divisor is zero fails it with
\* MOD_BY_ZERO.
C16_DivModByZero ==
  [][(/\ IsStepTransition
      /\ AtExecutedOp(OP_DIV) \/ AtExecutedOp(OP_MOD)
      /\ Len(currentState.stack) >= 2
      /\ ScriptNumDeserialize(Top(currentState.stack)) = 0) =>
       /\ currentState'.done
       /\ ~currentState'.success
       /\ currentState'.error = IF NextOp.opcode = OP_DIV THEN "DIV_BY_ZERO"
                                ELSE "MOD_BY_ZERO"]_vars

\* C17: an executed OP_2MUL replaces the number n on top of the stack by
\* 2n and an executed OP_2DIV replaces it by n/2 truncated toward zero; on
\* an empty stack each of them fails the script.
C17_TwoMulTwoDiv ==
  [][(/\ IsStepTransition
      /\ AtExecutedOp(OP_2MUL) \/ AtExecutedOp(OP_2DIV)) =>
       IF currentState.stack = <<>>
       THEN /\ currentState'.done
            /\ ~currentState'.success
            /\ currentState'.error # "OK"
       ELSE LET n == ScriptNumDeserialize(Top(currentState.stack))
            IN /\ ~currentState'.done
               /\ currentState'.stack =
                    Append(Pop(currentState.stack),
                           ScriptNumSerialize(
                             IF NextOp.opcode = OP_2MUL THEN 2 * n
                             ELSE TruncDiv(n, 2)))]_vars

(***************************************************************************)
(* Properties of the codec (specification SpecCodec).                      *)
(***************************************************************************)
\* C18: decoding the encoding of an int64 of -(2^63-1) .. 2^63-1 yields
\* the int64, the encoding has at most eight bytes, and the encoding of 0
\* is the empty byte string.
C18_CodecRoundTrip ==
  /\ codec.pc \in {"encoded", "decoded", "encoded_bool"} =>
       /\ Len(codec.bytes) <= INT64_BYTES
       /\ codec.num = Zero64 => codec.bytes = <<>>
  /\ codec.pc = "decoded" => codec.dec = codec.num

\* C18 witness: -(2^63-1) was encoded in eight bytes and decoded
C18_Witness ==
  /\ codec.pc = "decoded"
  /\ codec.num = [neg |-> TRUE,
                  mag |-> <<255, 255, 255, 255, 255, 255, 255, 127>>]
  /\ codec.bytes = <<255, 255, 255, 255, 255, 255, 255, 255>>
  /\ codec.dec = codec.num

\* all bytes are zero, but for a last byte that may be 0x80
IsZeroBytes(v) ==
  \A i \in 1..Len(v) : v[i] = 0 \/ (i = Len(v) /\ v[i] = 128)

\* C19: CastToBool of a byte string is false exactly when all its bytes are
\* zero or all are zero except a last byte 0x80; CastToBool of the encoding
\* of a number n is true exactly when n is not 0.
C19_CastToBool ==
  /\ codec.pc \in {"bool", "encoded_bool"} =>
       (codec.bool <=> ~IsZeroBytes(codec.bytes))
  /\ codec.pc = "encoded_bool" => (codec.bool <=> codec.num # Zero64)

\* C19 witness: a negative zero of three bytes was coerced to false
C19_Witness ==
  /\ codec.pc = "bool"
  /\ codec.bytes = <<0, 0, 128>>
  /\ ~codec.bool

(***************************************************************************)
(* Properties of the verifier (specification SpecVerify).                  *)
(***************************************************************************)
\* CRxdScript::IsPushOnly: every opcode is a push or a small integer
RECURSIVE IsPushOnlyFrom(_, _)
IsPushOnlyFrom(script, pc) ==
  IF pc >= Len(script) THEN TRUE
  ELSE LET op == GetOp(script, pc)
       IN IF ~op.ok \/ op.opcode > OP_16 THEN FALSE
          ELSE IsPushOnlyFrom(script, op.pc)

IsPushOnly(script) == IsPushOnlyFrom(script, 0)

\* C7: the error kind in the result of VerifyScript is the kind the
\* interpreter failed with, and a successful verification returns OK.
C7_ErrorKindSurfaced ==
  vFrame.called =>
    /\ vFrame.state.error # "OK" => vFrame.result.error = vFrame.state.error
    /\ vFrame.result.success => vFrame.result.error = "OK"

\* C8: with SIGPUSHONLY set, a verification whose unlocking script holds an
\* opcode that is not a push does not succeed.
C8_SigPushOnly ==
  (/\ vFrame.called
   /\ SCRIPT_VERIFY_SIGPUSHONLY \in vArgs.flags
   /\ ~IsPushOnly(vArgs.scriptSig)) => ~vFrame.result.success

\* C9: with CLEANSTACK set, VerifyScript returns success only if the final
\* main stack holds exactly one element, and a run that succeeded with any
\* other depth is returned as failed with CLEANSTACK.
C9_CleanStack ==
  (vFrame.called /\ SCRIPT_VERIFY_CLEANSTACK \in vArgs.flags) =>
    /\ vFrame.result.success =>
         (Len(vFrame.state.stack) = 1 /\ vFrame.result.stackSize = 1)
    /\ (vFrame.state.success /\ Len(vFrame.state.stack) # 1) =>
         (~vFrame.result.success /\ vFrame.result.error = "CLEANSTACK")

\* C9 witness: a run that succeeded with two elements on the stack and was
\* returned as failed with CLEANSTACK
C9_Witness ==
  /\ vFrame.called /\ SCRIPT_VERIFY_CLEANSTACK \in vArgs.flags
  /\ vFrame.state.success /\ Len(vFrame.state.stack) = 2
  /\ ~vFrame.result.success /\ vFrame.result.error = "CLEANSTACK"

\* the result of the per-input verifier for input i (one-based)
PerInputResult(i) ==
  VerifyScript(tArgs.tx.vin[i].scriptSig, tArgs.utxos[i][1], tArgs.tx,
               i - 1, tArgs.utxos[i][2], tArgs.flags)

\* C10, as claimed: VerifyTransaction returns one result per input, and
\* result i is the per-input verifier's outcome for input i and utxo i.
C10_OneResultPerInput ==
  tPc = "returned" =>
    /\ Len(tResults) = Len(tArgs.tx.vin)
    /\ \A i \in 1..Len(tArgs.tx.vin) :
          i <= Len(tArgs.utxos) => tResults[i] = PerInputResult(i)

\* C10, amended: when as many utxos as inputs are supplied,
\* VerifyTransaction returns one result per input, in input order, result i
\* being the per-input verifier's outcome for input i and utxo i; otherwise
\* it returns the single failed result UNKNOWN.
C10_OneResultPerInputWhenCountsMatch ==
  tPc = "returned" =>
    IF Len(tArgs.utxos) = Len(tArgs.tx.vin)
    THEN /\ Len(tResults) = Len(tArgs.tx.vin)
         /\ \A i \in 1..Len(tArgs.tx.vin) : tResults[i] = PerInputResult(i)
    ELSE /\ Len(tResults) = 1
         /\ ~tResults[1].success
         /\ tResults[1].error = "UNKNOWN"

\* C10 witness: a returned two-input verification whose first input failed
\* and whose second input succeeded
C10_Witness ==
  /\ tPc = "returned"
  /\ Len(tArgs.tx.vin) = 2 /\ Len(tArgs.utxos) = 2 /\ Len(tResults) = 2
  /\ ~tResults[1].success
  /\ tResults[2].success


(***************************************************************************)
(* The transaction wire format                                             *)
(***************************************************************************)

\* C20: for every well-formed transaction (any version and locktime, any
\* number of inputs and outputs, 32-byte previous txids, arbitrary script
\* bytes, sequences and values), Deserialize(Serialize(tx)) succeeds and is
\* equal to tx field by field.
C20_TxRoundTrip ==
  wire.pc = "deserialized" =>
    /\ wire.data = Serialize(wire.tx)
    /\ wire.out.ok
    /\ SameTx(wire.out.tx, wire.tx)

\* a transaction with inputs and outputs, a script length that takes the
\* three-byte varint and a negative version has made the round trip
C20_Witness ==
  /\ wire.pc = "deserialized"
  /\ wire.tx.nVersion < 0
  /\ Len(wire.tx.vin) = 2 /\ Len(wire.tx.vout) = 2
  /\ \E i \in 1..2 : Len(wire.tx.vin[i].scriptSig) = 253
  /\ wire.out.ok


(***************************************************************************)
(* Signatures                                                              *)
(***************************************************************************)

\* C21: CheckSig returns false for every signature whose last byte does not
\* have the FORKID bit (0x40) set, whatever the public key and whatever the
\* library says of the signature.
C21_ForkIdMandatory ==
  (/\ sigcheck.pc = "checked"
   /\ sigcheck.sig # <<>>
   /\ (sigcheck.sig[Len(sigcheck.sig)] \div 64) % 2 = 0)
    => ~sigcheck.result

\* a signature ending in SIGHASH_ALL that the library would accept, for a
\* valid key, was rejected
C21_Witness ==
  /\ sigcheck.pc = "checked"
  /\ sigcheck.sig # <<>>
  /\ sigcheck.sig[Len(sigcheck.sig)] = 1
  /\ sigcheck.ecdsa
  /\ IsValidPubKey(sigcheck.pubkey)
  /\ ~sigcheck.result


\* C22: an executed OP_CHECKSIG leaves true on the stack, and an executed
\* OP_CHECKSIGVERIFY passes, only for a signature that carries FORKID (and
\* verifies): a signature whose last byte lacks FORKID never yields true.
C22_CheckSigOpcodeNeedsForkId ==
  [][(/\ IsStepTransition
      /\ AtExecutedOp(OP_CHECKSIG) \/ AtExecutedOp(OP_CHECKSIGVERIFY)
      /\ Len(currentState.stack) >= 2
      /\ ~HasForkId(GetSigHashType(At(currentState.stack, 1)))) =>
       IF NextOp.opcode = OP_CHECKSIG
       THEN currentState'.stack # <<>> =>
              ~CastToBool(Top(currentState'.stack))
       ELSE currentState'.done /\ ~currentState'.success]_vars


(***************************************************************************)
(* Introspection and references                                            *)
(***************************************************************************)
IsIndexedOp(opcode) ==
  opcode \in {OP_UTXOVALUE, OP_UTXOBYTECODE, OP_OUTPUTVALUE,
              OP_OUTPUTBYTECODE, OP_INPUTSEQUENCENUMBER}

IsOutputOp(opcode) == opcode \in {OP_OUTPUTVALUE, OP_OUTPUTBYTECODE}

\* C23: an executed introspection opcode whose index is not below the
\* number of inputs (resp. outputs) of the context fails the script with
\* INVALID_TX_INPUT_INDEX (resp. INVALID_TX_OUTPUT_INDEX).
C23_InvalidIndexKind ==
  [][(/\ IsStepTransition
      /\ AtOpcode
      /\ IsIndexedOp(NextOp.opcode)
      /\ ExecFlag(currentState.vfExec)
      /\ context # NoContext
      /\ currentState.stack # <<>>
      /\ IF IsOutputOp(NextOp.opcode)
         THEN ~IsValidOutputIndex(context,
                 ScriptNumDeserialize(Top(currentState.stack)))
         ELSE ~IsValidInputIndex(context,
                 ScriptNumDeserialize(Top(currentState.stack)))) =>
       /\ currentState'.done
       /\ ~currentState'.success
       /\ currentState'.error =
            IF IsOutputOp(NextOp.opcode) THEN "INVALID_TX_OUTPUT_INDEX"
            ELSE "INVALID_TX_INPUT_INDEX"]_vars


\* C24: with no execution context, every introspection opcode executed in
\* a live branch fails the script with INTROSPECTION_CONTEXT_UNAVAILABLE,
\* whatever the stack contains.
C24_NoContext ==
  [][(/\ IsStepTransition
      /\ AtOpcode
      /\ NextOp.opcode \in
           {OP_INPUTINDEX, OP_ACTIVEBYTECODE, OP_TXVERSION, OP_TXINPUTCOUNT,
            OP_TXOUTPUTCOUNT, OP_TXLOCKTIME, OP_UTXOVALUE, OP_UTXOBYTECODE,
            OP_OUTPOINTTXHASH, OP_OUTPOINTINDEX, OP_INPUTBYTECODE,
            OP_INPUTSEQUENCENUMBER, OP_OUTPUTVALUE, OP_OUTPUTBYTECODE}
      /\ ExecFlag(currentState.vfExec)
      /\ context = NoContext) =>
       /\ currentState'.done
       /\ ~currentState'.success
       /\ currentState'.error = "INTROSPECTION_CONTEXT_UNAVAILABLE"]_vars


\* C25: an executed OP_REQUIREINPUTREF with a 36-byte reference that is not
\* among the input references of the context fails the script with
\* REFERENCE_NOT_FOUND.  A context without input coins has no input
\* references.
C25_RequireInputRef ==
  [][(/\ IsStepTransition
      /\ AtExecutedOp(OP_REQUIREINPUTREF)
      /\ currentState.stack # <<>>
      /\ Len(Top(currentState.stack)) = REF_SIZE
      /\ context # NoContext
      /\ context.inputCoins = <<>>) =>
       /\ currentState'.done
       /\ ~currentState'.success
       /\ currentState'.error = "REFERENCE_NOT_FOUND"]_vars


(***************************************************************************)
(* Splice (specification SpecSplice)                                       *)
(***************************************************************************)
\* the operands the script [push a, push b, OP_CAT, push index, OP_SPLIT]
\* was built from
SpliceA == GetOp(scriptPubKey, 0).data
SpliceB == GetOp(scriptPubKey, GetOp(scriptPubKey, 0).pc).data
SpliceIndex ==
  ScriptNumDeserialize(
    GetOp(scriptPubKey,
          GetOp(scriptPubKey, GetOp(scriptPubKey, 0).pc).pc + 1).data)

\* C26: for a and b whose combined length is within the element-size cap,
\* CAT, a push of |a| and SPLIT leave [a, b] again; SPLIT accepts exactly
\* the indices 0..len and fails with INVALID_STACK_OPERATION for any other.
C26_SpliceIdentity ==
  [][(/\ IsStepTransition
      /\ AtExecutedOp(OP_SPLIT)
      /\ Len(SpliceA) + Len(SpliceB) <= MAX_SCRIPT_ELEMENT_SIZE) =>
       /\ SpliceIndex = Len(SpliceA) =>
            /\ currentState'.error = "OK"
            /\ currentState'.stack = <<SpliceA, SpliceB>>
       /\ IF SpliceIndex >= 0 /\ SpliceIndex <= Len(SpliceA) + Len(SpliceB)
          THEN /\ currentState'.error = "OK"
               /\ Len(currentState'.stack) = 2
               /\ currentState'.stack[1] \o currentState'.stack[2]
                    = SpliceA \o SpliceB
               /\ Len(currentState'.stack[1]) = SpliceIndex
          ELSE /\ currentState'.done
               /\ currentState'.error = "INVALID_STACK_OPERATION"]_vars

\* two non-empty strings were joined and split where they were joined
C26_Witness ==
  /\ currentState.pc = Len(scriptPubKey)
  /\ currentState.error = "OK"
  /\ SpliceA # <<>> /\ SpliceB # <<>>
  /\ SpliceIndex = Len(SpliceA)
  /\ currentState.stack = <<SpliceA, SpliceB>>


(***************************************************************************)
(* Hash opcodes and limits (specification Spec)                            *)
(***************************************************************************)
\* C27: an executed OP_BLAKE3 or OP_K12 replaces the top stack element by a
\* 32-byte digest and the script goes on; on an empty stack it fails the
\* script.
C27_HashOpcodes ==
  [][(/\ IsStepTransition
      /\ AtExecutedOp(OP_BLAKE3) \/ AtExecutedOp(OP_K12)) =>
       IF currentState.stack = <<>>
       THEN /\ currentState'.done
            /\ ~currentState'.success
       ELSE /\ currentState'.error = "OK"
            /\ Len(currentState'.stack) = Len(currentState.stack)
            /\ Pop(currentState'.stack) = Pop(currentState.stack)
            /\ Len(Top(currentState'.stack)) = 32]_vars


\* C28: the opcode count is the number of non-push opcodes executed: a
\* Step that executes an opcode above OP_16 in a live branch without
\* failing raises opCount by one.
C28_OpCountCounts ==
  [][(/\ IsStepTransition
      /\ AtOpcode
      /\ NextOp.opcode > OP_16
      /\ ExecFlag(currentState.vfExec)
      /\ currentState'.error = "OK") =>
       currentState'.opCount = currentState.opCount + 1]_vars


(***************************************************************************)
(* The stack limit (specification SpecDepth)                               *)
(***************************************************************************)
\* C29: after every opcode that does not fail, the combined depth of the
\* main stack and the altstack is at most the limit: an opcode that would
\* raise it above the limit, a push included, fails with STACK_SIZE.
C29_StackDepth ==
  currentState.error = "OK" =>
    Len(currentState.stack) + Len(currentState.altstack) <= DepthLimit

(***************************************************************************)
(* Operands longer than a script number                                    *)
(***************************************************************************)
\* C30: an executed OP_ADD with an operand longer than 8 bytes fails the
\* script with INVALID_NUMBER_RANGE and computes no sum.
C30_LongOperandRejected ==
  [][(/\ IsStepTransition
      /\ AtExecutedOp(OP_ADD)
      /\ Len(currentState.stack) >= 2
      /\ \/ Len(Top(currentState.stack)) > 8
         \/ Len(At(currentState.stack, 1)) > 8) =>
       /\ currentState'.done
       /\ ~currentState'.success
       /\ currentState'.error = "INVALID_NUMBER_RANGE"]_vars

(***************************************************************************)
(* The VERIFY forms of the comparisons                                     *)
(***************************************************************************)
\* the comparison an executed OP_NUMEQUALVERIFY or OP_EQUALVERIFY makes on
\* the two top elements of the state s
VerifyOperandsEqual(s) ==
  IF GetOp(s.script, s.pc).opcode = OP_NUMEQUALVERIFY
  THEN ScriptNumDeserialize(At(s.stack, 1)) = ScriptNumDeserialize(Top(s.stack))
  ELSE At(s.stack, 1) = Top(s.stack)

\* C31: an executed OP_NUMEQUALVERIFY or OP_EQUALVERIFY with two operands
\* removes both and leaves nothing in their place when the comparison is
\* true, and fails the script with NUMEQUALVERIFY or EQUALVERIFY when it is
\* false.
C31_VerifyForms ==
  [][(/\ IsStepTransition
      /\ AtExecutedOp(OP_NUMEQUALVERIFY) \/ AtExecutedOp(OP_EQUALVERIFY)
      /\ Len(currentState.stack) >= 2) =>
       IF VerifyOperandsEqual(currentState)
       THEN /\ currentState'.error = "OK"
            /\ ~currentState'.done
            /\ currentState'.stack = PopN(currentState.stack, 2)
       ELSE /\ currentState'.done
            /\ ~currentState'.success
            /\ currentState'.error =
                 IF NextOp.opcode = OP_NUMEQUALVERIFY THEN "NUMEQUALVERIFY"
                 ELSE "EQUALVERIFY"]_vars

\* a true OP_EQUALVERIFY was just executed on two operands
C31_Witness ==
  /\ history # <<>>
  /\ LET prev == Top(history)
     IN /\ ~prev.done
        /\ prev.pc < Len(prev.script)
        /\ GetOp(prev.script, prev.pc).ok
        /\ GetOp(prev.script, prev.pc).opcode \in {OP_NUMEQUALVERIFY, OP_EQUALVERIFY}
        /\ ExecFlag(prev.vfExec)
        /\ Len(prev.stack) >= 2
        /\ VerifyOperandsEqual(prev)
        /\ currentState.error = "OK"
        /\ Len(currentState.stack) = Len(prev.stack) - 2

(***************************************************************************)
(* The execution context (specification SpecContext)                       *)
(***************************************************************************)
\* the byte offsets at which the opcodes of a script start
RECURSIVE OpOffsets(_, _)
OpOffsets(script, pc) ==
  IF pc >= Len(script) THEN {}
  ELSE IF ~GetOp(script, pc).ok THEN {}
  ELSE {pc} \cup OpOffsets(script, GetOp(script, pc).pc)

SeparatorOffsets(script) ==
  {o \in OpOffsets(script, 0) : script[o + 1] = OP_STATESEPARATOR}

\* state and code are the split of script at its first separator opcode
IsSplitAtFirstSeparator(script, state, code) ==
  IF SeparatorOffsets(script) = {}
  THEN state = <<>> /\ code = script
  ELSE LET sep == SetMin(SeparatorOffsets(script))
       IN /\ sep >= 0 /\ sep < Len(script)
          /\ state = SubSeq(script, 1, sep)
          /\ code = SubSeq(script, sep + 2, Len(script))
          /\ state \o <<OP_STATESEPARATOR>> \o code = script

\* C32: the state script and the code script of every input coin and of
\* every output are the bytes before and the bytes after the first
\* OP_STATESEPARATOR opcode of its script, which lies inside the script;
\* without a separator the state script is empty and the code script is
\* the whole script.
C32_StateCodeSplit ==
  refctx.pc = "views" =>
    /\ refctx.index < Len(refctx.impl.inputCoins) =>
         IsSplitAtFirstSeparator(
           refctx.impl.inputCoins[refctx.index + 1].scriptPubKey,
           refctx.stateUtxo, refctx.codeUtxo)
    /\ (refctx.impl.tx # NoTx /\ refctx.index < Len(refctx.impl.tx.vout)) =>
         IsSplitAtFirstSeparator(
           refctx.impl.tx.vout[refctx.index + 1].scriptPubKey,
           refctx.stateOutput, refctx.codeOutput)

\* a coin script with two separator opcodes was split at the first, and
\* an output script was split too
C32_Witness ==
  /\ refctx.pc = "views"
  /\ refctx.index < Len(refctx.impl.inputCoins)
  /\ Cardinality(SeparatorOffsets(
        refctx.impl.inputCoins[refctx.index + 1].scriptPubKey)) = 2
  /\ refctx.stateUtxo = <<OP_1>>
  /\ refctx.codeUtxo = <<OP_STATESEPARATOR, OP_1>>
  /\ refctx.impl.tx # NoTx
  /\ refctx.index < Len(refctx.impl.tx.vout)
  /\ refctx.codeOutput = <<OP_1>>
  /\ refctx.stateOutput = <<>>

\* the references a script carries under the reference opcodes the summary
\* classifies
ExtractedRefs(script) ==
  {GetOp(script, o).data :
     o \in {q \in OpOffsets(script, 0) :
              script[q + 1] \in {OP_PUSHINPUTREF, OP_REQUIREINPUTREF,
                                 OP_PUSHINPUTREFSINGLETON,
                                 OP_DISALLOWPUSHINPUTREFSIBLING}}}

\* C33: every reference the script of an input coin carries under
\* OP_PUSHINPUTREF, OP_REQUIREINPUTREF, OP_PUSHINPUTREFSINGLETON or
\* OP_DISALLOWPUSHINPUTREFSIBLING is in the context's union of input
\* references.
C33_InputRefsComplete ==
  refctx.pc # "idle" =>
    \A i \in 1..Len(refctx.impl.inputCoins) :
       ExtractedRefs(refctx.impl.inputCoins[i].scriptPubKey)
         \subseteq refctx.impl.refs.inputPushRefs

\* the references a script carries under OP_PUSHINPUTREF
PushedRefs(script) ==
  {GetOp(script, o).data :
     o \in {q \in OpOffsets(script, 0) : script[q + 1] = OP_PUSHINPUTREF}}

\* the positions of the scripts that push ref, and the sum of the values
\* at a set of positions
Pushers(scripts, ref) ==
  {i \in 1..Len(scripts) : ref \in PushedRefs(scripts[i])}

RECURSIVE SumAt(_, _)
SumAt(values, S) ==
  IF S = {} THEN 0
  ELSE LET i == CHOOSE x \in S : TRUE
       IN values[i] + SumAt(values, S \ {i})

CoinScripts ==
  [i \in 1..Len(refctx.impl.inputCoins) |->
     refctx.impl.inputCoins[i].scriptPubKey]
CoinValues ==
  [i \in 1..Len(refctx.impl.inputCoins) |-> refctx.impl.inputCoins[i].value]
OutputScripts ==
  IF refctx.impl.tx = NoTx THEN <<>>
  ELSE [i \in 1..Len(refctx.impl.tx.vout) |->
          refctx.impl.tx.vout[i].scriptPubKey]
OutputValues ==
  IF refctx.impl.tx = NoTx THEN <<>>
  ELSE [i \in 1..Len(refctx.impl.tx.vout) |-> refctx.impl.tx.vout[i].nValue]

\* C34: for a reference r, the count over the input coins is the number
\* of coins whose script pushes r and the value sum is the sum of the
\* values of exactly those coins, likewise over the outputs, and a count
\* is non-zero exactly when r is in the union of the input (output)
\* references.
C34_RefAggregates ==
  refctx.pc = "aggregates" =>
    /\ refctx.countUtxos = Cardinality(Pushers(CoinScripts, refctx.ref))
    /\ refctx.sumUtxos = SumAt(CoinValues, Pushers(CoinScripts, refctx.ref))
    /\ refctx.countOutputs = Cardinality(Pushers(OutputScripts, refctx.ref))
    /\ refctx.sumOutputs =
         SumAt(OutputValues, Pushers(OutputScripts, refctx.ref))
    /\ refctx.countUtxos # 0 <=> refctx.ref \in refctx.impl.refs.inputPushRefs
    /\ refctx.countOutputs # 0
         <=> refctx.ref \in refctx.impl.refs.outputPushRefs

\* a reference pushed by both coins, but not by every output, was asked for
C34_Witness ==
  /\ refctx.pc = "aggregates"
  /\ Len(refctx.impl.inputCoins) = 2
  /\ refctx.impl.inputCoins[1].value # refctx.impl.inputCoins[2].value
  /\ refctx.countUtxos = 2
  /\ refctx.sumUtxos = 8
  /\ Len(OutputScripts) = 2
  /\ refctx.countOutputs = 1
  /\ refctx.sumOutputs = 5

(***************************************************************************)
(* Replay, absorption, termination and status (specification Spec)         *)
(***************************************************************************)
\* the VM after n Step calls from vm
RECURSIVE Steps(_, _)
Steps(vm, n) == IF n = 0 THEN vm ELSE Steps(Step(vm).vm, n - 1)

\* C35: after any Steps and Rewinds the live state is the state the
\* original run had after as many Steps as the history is deep, so stepping
\* again after rewinding reproduces the original run, the entry into the
\* locking script included.
C35_ReplayAfterRewind ==
  currentState = Steps(InitialVM, GetHistoryDepth(VM)).currentState

\* C36: once the VM is done, a Step returns false and changes neither the
\* live state nor the history depth; only a Rewind or a Reset leads from a
\* done state to one that is not done.
C36_DoneAbsorbing ==
  /\ [](currentState.done =>
          /\ ~Step(VM).ret
          /\ Step(VM).vm.currentState = currentState
          /\ GetHistoryDepth(Step(VM).vm) = GetHistoryDepth(VM))
  /\ [][(currentState.done /\ ~currentState'.done) =>
          (VM' = Rewind(VM).vm \/ VM' = Reset(VM))]_vars

\* a successful run is done, with the Steps that led there in the history,
\* and a further Step is refused
C36_Witness ==
  /\ currentState.done
  /\ currentState.success
  /\ inScriptPubKey
  /\ history # <<>>
  /\ ~Top(history).done
  /\ Step(VM) = [ret |-> FALSE, vm |-> VM]

\* the number of opcodes of a script
NumOps(script) == Cardinality(OpOffsets(script, 0))

\* the most Steps that can return true for the two scripts
MaxTrueSteps == NumOps(scriptSig) + NumOps(scriptPubKey) + 1

\* C37: Run terminates: a Step that returns true either moves the program
\* counter forward within the script or switches once from the unlocking to
\* the locking script, only Reset switches back, the Steps that returned
\* true are at most the opcodes of both scripts plus one, and one Step more
\* than that many leaves the VM done, which ends Run.
C37_RunTerminates ==
  /\ [][(IsStepTransition /\ Step(VM).ret) =>
          \/ /\ inScriptPubKey' = inScriptPubKey
             /\ currentState'.script = currentState.script
             /\ currentState'.pc > currentState.pc
          \/ /\ ~inScriptPubKey /\ inScriptPubKey'
             /\ currentState'.script = scriptPubKey
             /\ currentState'.pc = 0]_vars
  /\ [][(inScriptPubKey /\ ~inScriptPubKey') => VM' = Reset(VM)]_vars
  /\ [](GetHistoryDepth(VM) - (IF currentState.done THEN 1 ELSE 0)
          <= MaxTrueSteps)
  /\ [](IsDone(Steps(VM, MaxTrueSteps + 1)))

\* a run over both scripts ended after as many true Steps as the bound
\* allows
C37_Witness ==
  /\ currentState.done
  /\ scriptSig # <<>> /\ scriptPubKey # <<>>
  /\ inScriptPubKey
  /\ NumOps(scriptPubKey) >= 2
  /\ GetHistoryDepth(VM) - 1 = MaxTrueSteps

\* C38: in every reachable state success implies done and error OK, an
\* error other than OK implies done and not success, and not done implies
\* error OK and not success.
C38_StatusConsistent ==
  /\ currentState.success =>
       (currentState.done /\ currentState.error = "OK")
  /\ currentState.error # "OK" =>
       (currentState.done /\ ~currentState.success)
  /\ ~currentState.done =>
       (currentState.error = "OK" /\ ~currentState.success)

\* a state that is not done and carries no error, with Steps behind it,
\* from which the next Step fails the script
C38_Witness ==
  /\ ~currentState.done
  /\ currentState.error = "OK"
  /\ history # <<>>
  /\ Step(VM).vm.currentState.done
  /\ Step(VM).vm.currentState.error \notin {"OK", "EVAL_FALSE"}
  /\ ~Step(VM).vm.currentState.success

(***************************************************************************)
(* Input indices (specification SpecIndex)                                 *)
(***************************************************************************)
\* the number with the magnitude bytes mag is below n, for n up to 256
MagnitudeBelow(mag, n) ==
  /\ \A j \in 2..Len(mag) : mag[j] = 0
  /\ (IF mag = <<>> THEN 0 ELSE mag[1]) < n

\* C39: an executed OP_UTXOVALUE, OP_UTXOBYTECODE or OP_INPUTSEQUENCENUMBER
\* accepts a non-negative index exactly when it is below the input count,
\* the value OP_TXINPUTCOUNT pushed.
C39_InputIndexConsistent ==
  [][(/\ IsStepTransition
      /\ AtOpcode
      /\ NextOp.opcode \in {OP_UTXOVALUE, OP_UTXOBYTECODE,
                            OP_INPUTSEQUENCENUMBER}
      /\ ExecFlag(currentState.vfExec)
      /\ context # NoContext
      /\ Len(currentState.stack) >= 2
      /\ At(currentState.stack, 1) =
           ScriptNumSerialize(GetInputCount(context))
      /\ ~SignAndMagnitude(Top(currentState.stack)).neg) =>
       (currentState'.error = "OK"
          <=> MagnitudeBelow(SignAndMagnitude(Top(currentState.stack)).mag,
                             GetInputCount(context)))]_vars

====
